---- MODULE Spec2Model ----
(***************************************************************************)
(* A model of the booking assistant: the Slot Store (storage.py), the     *)
(* Action Executor (executor.py), the Decision Planner (planner.py), the  *)
(* Intent Extractor (nlp.py) and the /process pipeline (app.py).          *)
(*                                                                         *)
(* Python values are modelled as follows.  A dict is a function whose     *)
(* DOMAIN is its key set, a list is a sequence, a str is a string, None   *)
(* is the value None below, a datetime is the reading of the logical      *)
(* clock now.  A clock text "HH:MM" is a string; formatting and parsing   *)
(* go through ClockText.                                                   *)
(***************************************************************************)
EXTENDS Integers, Sequences, FiniteSets, TLC

VARIABLES
    slots_file,     \* data/slots.json: the slot configuration record
    calendar,       \* data/bookings.json: the "calendar" mapping date -> list of bookings
    artifacts,      \* the calendar-invite files written under data/
    contexts,       \* DecisionPlanner.contexts: user_id -> ConversationContext
    context_files,  \* data/context_<user>.json: user_id -> serialized context
    now,            \* the logical clock read by datetime.now()
    result,         \* what the last completed operation returned to its caller
    threads         \* the request threads of the web server and their positions

vars == <<slots_file, calendar, artifacts, contexts, context_files, now, result, threads>>

-----------------------------------------------------------------------------
(* Bounds of the model *)

\* the number of operations issued in one behaviour
MaxSteps == 4

-----------------------------------------------------------------------------
(* Python values *)

None == "<None>"

EmptyDict == <<>>

\* None where the value is otherwise an object (a dict or a dataclass)
NoneObj == <<>>

\* Python truthiness of a str-or-None value
Truthy(v) == v # None /\ v # ""

\* d.get(k)
Get(d, k) == IF k \in DOMAIN d THEN d[k] ELSE None

\* d.get(k, dflt)
GetOr(d, k, dflt) == IF k \in DOMAIN d THEN d[k] ELSE dflt

\* d[k] = v
Put(d, k, v) == (k :> v) @@ d

\* x in list
InList(x, list) == \E i \in DOMAIN list : list[i] = x

\* [x for x in list if x not in excluded]
RECURSIVE Without(_, _)
Without(list, excluded) ==
    IF list = <<>> THEN <<>>
    ELSE IF Head(list) \in excluded THEN Without(Tail(list), excluded)
         ELSE <<Head(list)>> \o Without(Tail(list), excluded)

Digit == <<"0", "1", "2", "3", "4", "5", "6", "7", "8", "9">>

\* f"{n:02d}" for 0 <= n <= 99
D2(n) == Digit[(n \div 10) + 1] \o Digit[(n % 10) + 1]

\* strftime("%H:%M") and f"{h:02d}:{m:02d}"
ClockText(h, m) == D2(h) \o ":" \o D2(m)

\* the clock texts of one hour, each with its [hour, minute] reading
RECURSIVE MinutesTable(_, _)
MinutesTable(h, m) ==
    IF m < 0 THEN EmptyDict
    ELSE (ClockText(h, m) :> <<h, m>>) @@ MinutesTable(h, m - 1)

RECURSIVE HoursTable(_)
HoursTable(h) ==
    IF h < 0 THEN EmptyDict ELSE MinutesTable(h, 59) @@ HoursTable(h - 1)

\* every zero-padded clock text "00:00" .. "23:59" with its reading
ClockTable == HoursTable(23)

ClockTexts == DOMAIN ClockTable

\* [int(x) for x in s.split(":")] of a zero-padded clock text
ParseClock(s) == ClockTable[s]

\* s.replace(":", "") of a zero-padded clock text
NoColon(s) == LET p == ParseClock(s) IN D2(p[1]) \o D2(p[2])

\* the padded form in which a caller may hand a clock text to the Slot Store
Padded(s) == " " \o s

\* the padded clock texts the model hands to the Slot Store, each with its strip()
StripTable == (Padded("09:00") :> "09:00") @@ (Padded("14:00") :> "14:00")

\* s.strip()
Strip(s) == IF s \in DOMAIN StripTable THEN StripTable[s] ELSE s

\* datetime.now().strftime("%Y-%m-%d"), and the day after it
Today == "2024-01-05"
Tomorrow == "2024-01-06"
Yesterday == "2024-01-04"

-----------------------------------------------------------------------------
(* Slot configuration and the two slot grids *)

\* the slots.json that ActionExecutor._ensure_storage_files writes; app.py
\* constructs the executor before the BookingStorage, so this is the record
\* both components read
ExecutorDefaultSlots ==
    [start_time |-> "09:00", end_time |-> "17:00", slot_duration |-> 30,
     break_duration |-> 0,
     working_days |-> <<"monday", "tuesday", "wednesday", "thursday", "friday">>]

\* BookingStorage._generate_daily_slots: slot_count strftime readings of a
\* cursor that starts at start_time and advances by slot_step_minutes
RECURSIVE DailySlotsFrom(_, _, _)
DailySlotsFrom(cursor, step_minutes, count) ==
    IF count <= 0 THEN <<>>
    ELSE <<ClockText((cursor \div 60) % 24, cursor % 60)>>
         \o DailySlotsFrom(cursor + step_minutes, step_minutes, count - 1)

generate_daily_slots(cfg) ==
    LET start == ParseClock(GetOr(cfg, "start_time", "10:00"))
        slot_count == GetOr(cfg, "slot_count", 6)
        step_minutes == GetOr(cfg, "slot_step_minutes", 30)
    IN DailySlotsFrom(start[1] * 60 + start[2], step_minutes, slot_count)

\* BookingStorage.get_bookings
get_bookings(cal, date_str) == GetOr(cal, date_str, <<>>)

\* the set of booked times of a date, {b["time"] for b in bookings}
booked_times(cal, date_str) ==
    {get_bookings(cal, date_str)[i]["time"] : i \in DOMAIN get_bookings(cal, date_str)}

\* get_available_slots returning the whole grid, booked times included
get_available_slots_unfiltered(cfg, cal, date_str) == generate_daily_slots(cfg)

\* BookingStorage.get_available_slots
get_available_slots(cfg, cal, date_str) ==
    Without(generate_daily_slots(cfg), booked_times(cal, date_str))

\* ActionExecutor._generate_time_slots: the while loop
RECURSIVE TimeSlotsFrom(_, _, _, _, _)
TimeSlotsFrom(current_hour, current_min, end_hour, end_min, slot_duration) ==
    IF current_hour < end_hour \/ (current_hour = end_hour /\ current_min < end_min)
    THEN <<ClockText(current_hour, current_min)>>
         \o (IF current_min + slot_duration >= 60
             THEN TimeSlotsFrom(current_hour + 1, 0, end_hour, end_min, slot_duration)
             ELSE TimeSlotsFrom(current_hour, current_min + slot_duration,
                                end_hour, end_min, slot_duration))
    ELSE <<>>

generate_time_slots(config) ==
    LET start == ParseClock(GetOr(config, "start_time", "09:00"))
        end == ParseClock(GetOr(config, "end_time", "17:00"))
        slot_duration == GetOr(config, "slot_duration", 30)
    IN TimeSlotsFrom(start[1], start[2], end[1], end[2], slot_duration)

\* executor_booked_slots reading the booked times under a key no booking has
executor_booked_slots_wrong_key(cal, date) ==
    {Get(GetOr(cal, date, <<>>)[i], "slot") : i \in DOMAIN GetOr(cal, date, <<>>)}

\* ActionExecutor._get_available_slots
executor_booked_slots(cal, date) ==
    {Get(GetOr(cal, date, <<>>)[i], "time") : i \in DOMAIN GetOr(cal, date, <<>>)}

executor_get_available_slots(config, cal, date) ==
    Without(generate_time_slots(config), executor_booked_slots(cal, date))

-----------------------------------------------------------------------------
(* Slot Store operations (storage.py).  Each operator maps the durable     *)
(* state it reads to the durable state it leaves and the value it returns. *)

\* book_specific_slot rejecting only the times that are not on the grid
book_specific_slot_grid_only(cfg, cal, date_str, time_in) ==
    LET time_str == Strip(time_in)
        booking == [time |-> time_str]
    IN IF ~InList(time_str, generate_daily_slots(cfg))
       THEN [calendar |-> cal,
             ret |-> [success |-> FALSE,
                      message |-> "Slot " \o time_str \o " is not available.",
                      booking |-> NoneObj]]
       ELSE [calendar |-> Put(cal, date_str, Append(get_bookings(cal, date_str), booking)),
             ret |-> [success |-> TRUE,
                      message |-> "Booked " \o time_str \o " successfully.",
                      booking |-> booking]]

\* BookingStorage.book_specific_slot
book_specific_slot(cfg, cal, date_str, time_in) ==
    LET time_str == Strip(time_in)
        slots == get_available_slots(cfg, cal, date_str)
        booking == [time |-> time_str]
    IN IF ~InList(time_str, slots)
       THEN [calendar |-> cal,
             ret |-> [success |-> FALSE,
                      message |-> "Slot " \o time_str \o " is not available.",
                      booking |-> NoneObj]]
       ELSE [calendar |-> Put(cal, date_str, Append(get_bookings(cal, date_str), booking)),
             ret |-> [success |-> TRUE,
                      message |-> "Booked " \o time_str \o " successfully.",
                      booking |-> booking]]

\* BookingStorage.book_first_available
book_first_available(cfg, cal, date_str) ==
    LET slots == get_available_slots(cfg, cal, date_str)
    IN IF slots = <<>>
       THEN [calendar |-> cal,
             ret |-> [success |-> FALSE, message |-> "No available slots left.",
                      booking |-> NoneObj]]
       ELSE book_specific_slot(cfg, cal, date_str, slots[1])

-----------------------------------------------------------------------------
(* Action Executor operations (executor.py) *)

\* ", ".join(list)
RECURSIVE Join(_)
Join(list) ==
    IF list = <<>> THEN ""
    ELSE IF Len(list) = 1 THEN list[1]
    ELSE list[1] \o ", " \o Join(Tail(list))

\* the dates whose text splits into year-month-day integers
IsoDates == {Today, Tomorrow}

\* ExecutionResult(success, message, data, files_created)
ExecutionResult(success, message, data, files_created) ==
    [success |-> success, message |-> message, data |-> data,
     files_created |-> files_created]

\* what an executor handler leaves behind and returns
Outcome(cal, arts, res) == [calendar |-> cal, artifacts |-> arts, ret |-> res]

\* ActionExecutor._generate_ics_file: the path written, or None when the
\* date or the end of the slot cannot be built (ValueError, caught)
generate_ics_file(booking_data) ==
    LET date == booking_data["date"]
        time == booking_data["time"]
        booking_id == GetOr(booking_data, "booking_id", date \o "_" \o NoColon(time))
        minute == ParseClock(time)[2]
    IN IF date \notin IsoDates THEN None
       ELSE IF minute + 30 > 59 THEN None
       ELSE "data/booking_" \o booking_id \o ".ics"

\* ActionExecutor._save_booking: load, append, save
save_booking(cal, booking_data) ==
    Put(cal, booking_data["date"],
        Append(GetOr(cal, booking_data["date"], <<>>), booking_data))

\* _execute_book_slot without its availability check
execute_book_slot_unchecked(cfg, cal, arts, clock, params) ==
    LET time == Get(params, "time")
        date == IF Truthy(Get(params, "date")) THEN Get(params, "date") ELSE Today
        booking_data == [time |-> time, date |-> date, booked_at |-> clock,
                         booking_id |-> date \o "_" \o NoColon(time)]
    IN IF ~Truthy(time)
       THEN Outcome(cal, arts,
                ExecutionResult(FALSE, "Time is required for booking", NoneObj, <<>>))
       ELSE Outcome(save_booking(cal, booking_data), arts,
                    ExecutionResult(TRUE, "Successfully booked " \o time \o " on " \o date,
                                    booking_data, <<>>))

\* ActionExecutor._execute_book_slot
execute_book_slot(cfg, cal, arts, clock, params) ==
    LET time == Get(params, "time")
        date == IF Truthy(Get(params, "date")) THEN Get(params, "date") ELSE Today
    IN IF ~Truthy(time)
       THEN Outcome(cal, arts,
                ExecutionResult(FALSE, "Time is required for booking", NoneObj, <<>>))
       ELSE IF ~InList(time, executor_get_available_slots(cfg, cal, date))
       THEN Outcome(cal, arts,
                ExecutionResult(FALSE, "Slot " \o time \o " is not available on " \o date,
                                NoneObj, <<>>))
       ELSE LET booking_data == [time |-> time, date |-> date, booked_at |-> clock,
                                 booking_id |-> date \o "_" \o NoColon(time)]
                ics_file == generate_ics_file(booking_data)
            IN Outcome(save_booking(cal, booking_data),
                       IF ics_file = None THEN arts ELSE arts \cup {ics_file},
                       ExecutionResult(TRUE,
                           "Successfully booked " \o time \o " on " \o date,
                           booking_data,
                           IF ics_file = None THEN <<>> ELSE <<ics_file>>))

\* the filter of _execute_cancel_slot keeping nothing
OtherTimes_dropped(date_bookings, time) == <<>>

\* _execute_cancel_slot without its test that something was removed
execute_cancel_slot_found(cal, arts, params) ==
    Outcome(Put(cal, IF Truthy(Get(params, "date")) THEN Get(params, "date") ELSE Today,
                <<>>),
            arts,
            ExecutionResult(TRUE, "Cancelled booking", NoneObj, <<>>))

\* the filter of _execute_cancel_slot keeping only the bookings stored after
\* the one with the time
RECURSIVE OtherTimes_after(_, _)
OtherTimes_after(date_bookings, time) ==
    IF date_bookings = <<>> THEN <<>>
    ELSE IF Get(Head(date_bookings), "time") = time
         THEN Tail(date_bookings)
         ELSE OtherTimes_after(Tail(date_bookings), time)

\* [b for b in date_bookings if b.get("time") != time]
RECURSIVE OtherTimes(_, _)
OtherTimes(date_bookings, time) ==
    IF date_bookings = <<>> THEN <<>>
    ELSE IF Get(Head(date_bookings), "time") # time
         THEN <<Head(date_bookings)>> \o OtherTimes(Tail(date_bookings), time)
         ELSE OtherTimes(Tail(date_bookings), time)

\* ActionExecutor._execute_cancel_slot
execute_cancel_slot(cal, arts, params) ==
    LET time == Get(params, "time")
        date == IF Truthy(Get(params, "date")) THEN Get(params, "date") ELSE Today
        date_bookings == GetOr(cal, date, <<>>)
        kept == IF Truthy(time) THEN OtherTimes(date_bookings, time) ELSE <<>>
    IN IF Len(kept) = Len(date_bookings)
       THEN Outcome(cal, arts,
                ExecutionResult(FALSE,
                    "No booking found for "
                        \o (IF Truthy(time) THEN time ELSE "any time") \o " on " \o date,
                    NoneObj, <<>>))
       ELSE Outcome(Put(cal, date, kept), arts,
                ExecutionResult(TRUE,
                    "Cancelled booking for "
                        \o (IF Truthy(time) THEN time ELSE "all slots") \o " on " \o date,
                    NoneObj, <<>>))

\* str(v) inside an f-string
Str(v) == IF v = None THEN "None" ELSE v

\* ActionExecutor._execute_query_available
execute_query_available(cfg, cal, arts, params) ==
    LET date == GetOr(params, "date", Today)
        available_slots == executor_get_available_slots(cfg, cal, date)
    IN Outcome(cal, arts,
           ExecutionResult(TRUE,
               IF available_slots # <<>>
               THEN "Available slots for " \o Str(date) \o ": " \o Join(available_slots)
               ELSE "No available slots for " \o Str(date),
               [available_slots |-> available_slots, date |-> date], <<>>))

\* [b.get("time", "Unknown") for b in user_bookings]
TimesOf(user_bookings) ==
    [i \in DOMAIN user_bookings |-> GetOr(user_bookings[i], "time", "Unknown")]

\* _execute_query_bookings reporting an empty list as a failure
execute_query_bookings_nonempty(cal, arts, params) ==
    LET date == GetOr(params, "date", Today)
        user_bookings == GetOr(cal, date, <<>>)
    IN Outcome(cal, arts,
           ExecutionResult(user_bookings # <<>>,
               IF user_bookings # <<>>
               THEN "Your bookings for " \o Str(date) \o ": " \o Join(TimesOf(user_bookings))
               ELSE "No bookings found for " \o Str(date),
               [bookings |-> user_bookings, date |-> date], <<>>))

\* ActionExecutor._execute_query_bookings
execute_query_bookings(cal, arts, params) ==
    LET date == GetOr(params, "date", Today)
        user_bookings == GetOr(cal, date, <<>>)
    IN Outcome(cal, arts,
           ExecutionResult(TRUE,
               IF user_bookings # <<>>
               THEN "Your bookings for " \o Str(date) \o ": " \o Join(TimesOf(user_bookings))
               ELSE "No bookings found for " \o Str(date),
               [bookings |-> user_bookings, date |-> date], <<>>))

\* str.lower, on the words of the model that hold a capital letter
Lower(s) ==
    CASE s = "SHUTDOWN" -> "shutdown"
      [] s = "Restart" -> "restart"
      [] s = "Hibernate" -> "hibernate"
      [] s = "Hello" -> "hello"
      [] s = "CANCEL" -> "cancel"
      [] OTHER -> s

\* an exception that leaves the handler and execute_action: nothing is returned
Raised(cal, arts, error) == Outcome(cal, arts, [raised |-> error])

\* the commands ActionExecutor._execute_system_control recognises, with the
\* explanation it gives for each
system_commands ==
    [shutdown |-> "To shutdown the system",
     restart |-> "To restart the system",
     sleep |-> "To put system to sleep",
     hibernate |-> "To hibernate the system"]

\* _execute_system_control comparing the command as it was given
execute_system_control_cased(cal, arts, params) ==
    LET command == GetOr(params, "command", "")
    IN IF command = None THEN Raised(cal, arts, "AttributeError")
       ELSE Outcome(cal, arts,
           IF command \in DOMAIN system_commands
           THEN ExecutionResult(TRUE, "For safety, I can't execute " \o command
                                      \o ". " \o system_commands[command],
                                NoneObj, <<>>)
           ELSE ExecutionResult(FALSE, "Unknown system command: " \o command,
                                NoneObj, <<>>))

\* ActionExecutor._execute_system_control: it reports, it never runs a command;
\* None has no lower(), the AttributeError is not caught
execute_system_control(cal, arts, params) ==
    IF GetOr(params, "command", "") = None THEN Raised(cal, arts, "AttributeError")
    ELSE LET command == Lower(GetOr(params, "command", ""))
         IN Outcome(cal, arts,
                IF command \in DOMAIN system_commands
                THEN ExecutionResult(TRUE, "For safety, I can't execute " \o command
                                           \o ". " \o system_commands[command],
                                     NoneObj, <<>>)
                ELSE ExecutionResult(FALSE, "Unknown system command: " \o command,
                                     NoneObj, <<>>))

\* ActionExecutor._execute_create_ics
execute_create_ics(cal, arts, params) ==
    LET booking_data == GetOr(params, "booking_data", EmptyDict)
        ics_file == IF booking_data = EmptyDict THEN None
                    ELSE generate_ics_file(booking_data)
    IN IF booking_data = EmptyDict
       THEN Outcome(cal, arts,
                ExecutionResult(FALSE, "No booking data provided for ICS creation",
                                NoneObj, <<>>))
       ELSE IF ics_file = None
       THEN Outcome(cal, arts,
                ExecutionResult(FALSE, "Failed to create ICS file", NoneObj, <<>>))
       ELSE Outcome(cal, arts \cup {ics_file},
                ExecutionResult(TRUE, "Created ICS file: " \o ics_file, NoneObj,
                                <<ics_file>>))

\* the words ActionExecutor._execute_system_open looks for in its command
open_targets == {"browser", "web", "calculator", "notepad", "text", "file"}

\* ActionExecutor._execute_system_open, for the commands the Planner builds
\* ("open") and the bare target words; os_ok is whether the OS call succeeds
execute_system_open(cal, arts, params, os_ok) ==
    LET command == GetOr(params, "command", "")
    IN Outcome(cal, arts,
           IF command \notin open_targets
           THEN ExecutionResult(FALSE, "Unknown open command: " \o command, NoneObj, <<>>)
           ELSE IF os_ok
           THEN ExecutionResult(TRUE, "Opened " \o command, NoneObj, <<>>)
           ELSE ExecutionResult(FALSE, "Failed to open " \o command, NoneObj, <<>>))

\* ActionExecutor._execute_send_notification; os_ok is whether the OS call succeeds
execute_send_notification(cal, arts, params, os_ok) ==
    LET message == GetOr(params, "message", "")
    IN Outcome(cal, arts,
           IF message = ""
           THEN ExecutionResult(FALSE, "No message provided for notification",
                                NoneObj, <<>>)
           ELSE IF os_ok
           THEN ExecutionResult(TRUE, "Notification sent: " \o message, NoneObj, <<>>)
           ELSE ExecutionResult(FALSE, "Failed to send notification", NoneObj, <<>>))

\* the calls a handler makes to the operating system (subprocess.run,
\* webbrowser.open): _execute_system_open for a command it knows,
\* _execute_send_notification for a message; no other handler makes one
os_calls(action_name, parameters) ==
    CASE action_name = "system_open" ->
            IF GetOr(parameters, "command", "") \in open_targets
            THEN <<GetOr(parameters, "command", "")>> ELSE <<>>
      [] action_name = "send_notification" ->
            IF GetOr(parameters, "message", "") # "" THEN <<"notify">> ELSE <<>>
      [] OTHER -> <<>>

\* the keys of ActionExecutor.action_handlers
executor_action_handlers ==
    {"book_slot", "cancel_slot", "query_available_slots", "query_user_bookings",
     "system_open", "system_control", "create_ics", "send_notification"}

\* execute_action looking the handler up without its membership test
execute_action_unguarded(cfg, cal, arts, clock, action_name, parameters, os_ok) ==
    CASE action_name = "book_slot" -> execute_book_slot(cfg, cal, arts, clock, parameters)
      [] action_name = "cancel_slot" -> execute_cancel_slot(cal, arts, parameters)
      [] action_name = "query_available_slots" ->
            execute_query_available(cfg, cal, arts, parameters)
      [] action_name = "query_user_bookings" -> execute_query_bookings(cal, arts, parameters)
      [] action_name = "system_open" -> execute_system_open(cal, arts, parameters, os_ok)
      [] action_name = "system_control" -> execute_system_control(cal, arts, parameters)
      [] action_name = "create_ics" -> execute_create_ics(cal, arts, parameters)
      [] action_name = "send_notification" ->
            execute_send_notification(cal, arts, parameters, os_ok)
      [] OTHER -> Raised(cal, arts, "KeyError")

\* ActionExecutor.execute_action
execute_action(cfg, cal, arts, clock, action_name, parameters, os_ok) ==
    CASE action_name = "book_slot" -> execute_book_slot(cfg, cal, arts, clock, parameters)
      [] action_name = "cancel_slot" -> execute_cancel_slot(cal, arts, parameters)
      [] action_name = "query_available_slots" ->
            execute_query_available(cfg, cal, arts, parameters)
      [] action_name = "query_user_bookings" -> execute_query_bookings(cal, arts, parameters)
      [] action_name = "system_open" -> execute_system_open(cal, arts, parameters, os_ok)
      [] action_name = "system_control" -> execute_system_control(cal, arts, parameters)
      [] action_name = "create_ics" -> execute_create_ics(cal, arts, parameters)
      [] action_name = "send_notification" ->
            execute_send_notification(cal, arts, parameters, os_ok)
      [] OTHER -> Outcome(cal, arts,
                      ExecutionResult(FALSE, "Unknown action: " \o action_name,
                                      NoneObj, <<>>))

\* a durable file on which json.load fails, and one that holds the JSON
\* list [] where an object is expected
Unreadable == ("<unreadable>" :> <<>>)
NotAnObject == ("<list>" :> <<>>)

\* BookingStorage: self._read_json(path) or {}
read_json(file) == IF file = Unreadable \/ file = NotAnObject THEN EmptyDict ELSE file

\* ActionExecutor._load_bookings: an empty calendar when the read fails,
\* otherwise whatever the file holds
load_bookings(file) == IF file = Unreadable THEN EmptyDict ELSE file

\* ActionExecutor._get_available_slots, lines 390-399: the default
\* configuration when the read fails, otherwise whatever the file holds
load_slots_config(file) ==
    IF file = Unreadable
    THEN [start_time |-> "09:00", end_time |-> "17:00", slot_duration |-> 30]
    ELSE file

\* the file after an operation that read `loaded` from it and holds `after`:
\* it is written only by an operation that changed what it read
Kept(file, loaded, after) == IF after = loaded THEN file ELSE after

\* the handlers that call _get_available_slots, and those that call
\* _load_bookings before any try block
reads_slots(action_name, parameters) ==
    \/ action_name = "query_available_slots"
    \/ action_name = "book_slot" /\ Truthy(Get(parameters, "time"))

reads_bookings(action_name, parameters) ==
    \/ action_name \in {"cancel_slot", "query_user_bookings"}
    \/ reads_slots(action_name, parameters)

\* the outcome of a handler with the bookings file as it is left
stored(cal_file, o) ==
    [o EXCEPT !.calendar = Kept(cal_file, load_bookings(cal_file), o.calendar)]

\* execute_action on the two files: config.get or bookings.get on a list
\* raises AttributeError, which no handler catches
execute_on_files(cfg_file, cal_file, arts, clock, action_name, parameters, os_ok) ==
    IF \/ reads_slots(action_name, parameters) /\ cfg_file = NotAnObject
       \/ reads_bookings(action_name, parameters) /\ cal_file = NotAnObject
    THEN Raised(cal_file, arts, "AttributeError")
    ELSE stored(cal_file,
                execute_action(load_slots_config(cfg_file), load_bookings(cal_file),
                               arts, clock, action_name, parameters, os_ok))

-----------------------------------------------------------------------------
(* Utterances.  A text is the sequence of its lower-case words; a keyword  *)
(* occurs in a text ("kw in text") when one of the words contains it.      *)

\* the pairs <<word, keyword>> of the vocabulary in which the keyword is a
\* proper substring of the word
SubstringPairs ==
    {<<"booking", "book">>, <<"bookings", "book">>, <<"bookings", "booking">>,
     <<"restart", "start">>, <<"this", "hi">>, <<"show", "how">>}

\* sub in word
WordContains(word, sub) == word = sub \/ <<word, sub>> \in SubstringPairs

\* sub in text
TextContains(text, sub) == \E i \in DOMAIN text : WordContains(text[i], sub)

\* the entity values that are not a clock text or an ISO date, each with the
\* words its text holds
RawValues == ("my free day" :> {"my", "free", "day"})

\* word in str(entities): the keys are 'time' and 'date', so a value holds it
EntitiesMention(entities, word) ==
    \E k \in DOMAIN entities :
        entities[k] \in DOMAIN RawValues /\ word \in RawValues[entities[k]]

-----------------------------------------------------------------------------
(* Decision Planner (planner.py) *)

\* the length to which _add_to_history truncates the history
HistoryLimit == 10

\* Action(name, parameters, priority=1, requires_confirmation=...)
Action(name, parameters, requires_confirmation) ==
    [name |-> name, parameters |-> parameters, priority |-> 1,
     requires_confirmation |-> requires_confirmation]

\* ConversationContext(...)
ConversationContext(user_id, current_intent, entities, pending_actions, conversation_history, last_updated) ==
    [user_id |-> user_id, current_intent |-> current_intent, entities |-> entities,
     pending_actions |-> pending_actions,
     conversation_history |-> conversation_history, last_updated |-> last_updated]

\* what a planning rule returns, with the context as the rule leaves it
Plan(context, actions, response) ==
    [context |-> context, actions |-> actions, response |-> response]

\* DecisionPlanner._get_or_create_context
get_or_create_context(ctxs, clock, user_id, intent_name, entities) ==
    IF user_id \notin DOMAIN ctxs
    THEN Put(ctxs, user_id,
             ConversationContext(user_id, intent_name, entities, <<>>, <<>>, clock))
    ELSE ctxs

\* _add_to_history cutting the history at its end: the oldest entries stay
add_to_history_oldest_kept(context, clock, text, intent, entities) ==
    LET appended == Append(context.conversation_history,
                           [timestamp |-> clock, text |-> text, intent |-> intent,
                            entities |-> entities])
    IN [context EXCEPT !.conversation_history =
            IF Len(appended) > HistoryLimit THEN SubSeq(appended, 1, HistoryLimit)
            ELSE appended]

\* DecisionPlanner._add_to_history
add_to_history(context, clock, text, intent, entities) ==
    LET appended == Append(context.conversation_history,
                           [timestamp |-> clock, text |-> text, intent |-> intent,
                            entities |-> entities])
    IN [context EXCEPT !.conversation_history =
            IF Len(appended) > HistoryLimit
            THEN SubSeq(appended, Len(appended) - HistoryLimit + 1, Len(appended))
            ELSE appended]

\* _plan_booking proposing a book_slot whatever the entities hold
plan_booking_eager(context, entities, confidence) ==
    Plan(context,
         <<Action("book_slot",
                  [time |-> Get(entities, "time"),
                   date |-> IF Truthy(Get(entities, "date")) THEN Get(entities, "date")
                            ELSE Today],
                  TRUE)>>,
         "Should I proceed?")

\* _plan_booking proposing its book_slot without asking for a confirmation
plan_booking_unconfirmed(context, entities, confidence) ==
    Plan(context,
         <<Action("book_slot",
                  [time |-> Get(entities, "time"),
                   date |-> IF Truthy(Get(entities, "date")) THEN Get(entities, "date")
                            ELSE Today],
                  FALSE)>>,
         "Booking.")

\* DecisionPlanner._plan_booking
plan_booking(context, entities, confidence) ==
    LET time == Get(entities, "time")
        date == Get(entities, "date")
    IN IF ~Truthy(time) /\ ~Truthy(date)
       THEN Plan(context,
                <<Action("clarify_time", [missing |-> "time"], TRUE)>>,
                "I'd be happy to book a slot for you. What time would you prefer?")
       ELSE IF ~Truthy(time)
       THEN Plan(context,
                <<Action("clarify_time", [missing |-> "time", date |-> date], TRUE)>>,
                "Great! I can book a slot for " \o date \o ". What time would you like?")
       ELSE IF ~Truthy(date)
       THEN Plan(context,
                <<Action("book_slot", [time |-> time, date |-> Today], TRUE)>>,
                "Perfect! I'll book " \o time \o " for today (" \o Today
                    \o "). Should I proceed?")
       ELSE Plan(context,
                <<Action("book_slot", [time |-> time, date |-> date], TRUE)>>,
                "Excellent! I'll book " \o time \o " on " \o date \o ". Should I proceed?")

\* _plan_cancellation without its test for a missing time and date
plan_cancellation_eager(context, entities, confidence) ==
    LET time == Get(entities, "time")
        date == Get(entities, "date")
    IN Plan(context,
            <<Action("cancel_slot",
                     [time |-> time,
                      date |-> IF Truthy(date) THEN date ELSE Today], TRUE)>>,
            "I'll cancel your booking. Confirm?")

\* DecisionPlanner._plan_cancellation
plan_cancellation(context, entities, confidence) ==
    LET time == Get(entities, "time")
        date == Get(entities, "date")
    IN IF ~Truthy(time) /\ ~Truthy(date)
       THEN Plan(context,
                <<Action("clarify_cancellation", [missing |-> "['time', 'date']"], TRUE)>>,
                "I can help you cancel a booking. Which date and time would you like to cancel?")
       ELSE Plan(context,
                <<Action("cancel_slot",
                         [time |-> time,
                          date |-> IF Truthy(date) THEN date ELSE Today], TRUE)>>,
                "I'll cancel your booking for "
                    \o (IF Truthy(time) THEN time ELSE "any time") \o " on "
                    \o (IF Truthy(date) THEN date ELSE "today") \o ". Confirm?")

\* DecisionPlanner._plan_query
plan_query(context, entities, confidence) ==
    LET date == GetOr(entities, "date", Today)
    IN IF EntitiesMention(entities, "available") \/ EntitiesMention(entities, "free")
       THEN Plan(context,
                <<Action("query_available_slots", [date |-> date], FALSE)>>,
                "I'll check available slots for " \o Str(date) \o ".")
       ELSE IF EntitiesMention(entities, "bookings") \/ EntitiesMention(entities, "my")
       THEN Plan(context,
                <<Action("query_user_bookings", [date |-> date], FALSE)>>,
                "I'll show your bookings for " \o Str(date) \o ".")
       ELSE Plan(context,
                <<Action("clarify_query", [missing |-> "query_type"], TRUE)>>,
                "What would you like to know about your bookings or available slots?")

\* DecisionPlanner._plan_system_action
plan_system_action(context, entities, confidence) ==
    LET original_text ==
            IF context.conversation_history # <<>>
            THEN context.conversation_history[Len(context.conversation_history)].text
            ELSE <<>>
    IN IF \E w \in {"open", "launch", "start"} : TextContains(original_text, w)
       THEN Plan(context,
                <<Action("system_open", [command |-> "open"], TRUE)>>,
                "I can help you open applications or files. What would you like me to open?")
       ELSE IF \E w \in {"shutdown", "restart", "sleep"} : TextContains(original_text, w)
       THEN Plan(context,
                <<Action("system_control", [command |-> "system"], TRUE)>>,
                "I can help with system commands. What system action would you like?")
       ELSE Plan(context,
                <<Action("clarify_system", [missing |-> "system_command"], TRUE)>>,
                "I can help with system tasks. What would you like me to do?")

\* DecisionPlanner._plan_greeting
plan_greeting(context, entities, confidence) ==
    Plan(context, <<>>,
         IF Len(context.conversation_history) > 1
         THEN "Hello again! How can I assist you today?"
         ELSE "Hello! I'm your personal assistant. I can help you book slots, manage your schedule, or assist with system tasks. What would you like to do?")

\* the merge of _plan_fallback taking the date only
merge_parameters_date_only(parameters, time, date) ==
    IF Truthy(date) THEN Put(parameters, "date", date) ELSE parameters

\* the merge of _plan_fallback: the new time and date written into the
\* parameters of the first pending action
merge_parameters(parameters, time, date) ==
    LET with_time == IF Truthy(time) THEN Put(parameters, "time", time) ELSE parameters
    IN IF Truthy(date) THEN Put(with_time, "date", date) ELSE with_time

\* DecisionPlanner._plan_fallback
plan_fallback(context, entities, confidence) ==
    LET time == Get(entities, "time")
        date == Get(entities, "date")
    IN IF /\ context.current_intent = "book_slot"
          /\ context.pending_actions # <<>>
          /\ (Truthy(time) \/ Truthy(date))
       THEN LET merged == merge_parameters(context.pending_actions[1].parameters,
                                           time, date)
            IN Plan([context EXCEPT !.pending_actions[1].parameters = merged],
                    <<>>,
                    "Got it! I'll book " \o Str(GetOr(merged, "time", "a slot")) \o " on "
                        \o Str(GetOr(merged, "date", "today")) \o ". Should I proceed?")
       ELSE Plan(context,
                <<Action("clarify_intent", [missing |-> "intent"], TRUE)>>,
                "I didn't quite understand that. You can ask me to book a slot, check availability, or help with other tasks. What would you like to do?")

\* DecisionPlanner.action_handlers and the dispatch of process_intent
plan(intent_name, context, entities, confidence) ==
    CASE intent_name = "book_slot" -> plan_booking(context, entities, confidence)
      [] intent_name = "cancel_slot" -> plan_cancellation(context, entities, confidence)
      [] intent_name = "query_slots" -> plan_query(context, entities, confidence)
      [] intent_name = "system_action" -> plan_system_action(context, entities, confidence)
      [] intent_name = "greet" -> plan_greeting(context, entities, confidence)
      [] intent_name = "unknown" -> plan_fallback(context, entities, confidence)
      [] OTHER -> plan_fallback(context, entities, confidence)

\* the records of _save_context written without requires_confirmation
RECURSIVE serialize_actions_bare(_)
serialize_actions_bare(pending_actions) ==
    IF pending_actions = <<>> THEN <<>>
    ELSE <<[name |-> Head(pending_actions).name,
            parameters |-> Head(pending_actions).parameters,
            priority |-> Head(pending_actions).priority]>>
         \o serialize_actions_bare(Tail(pending_actions))

\* the pending_actions list of DecisionPlanner._save_context
RECURSIVE serialize_actions(_)
serialize_actions(pending_actions) ==
    IF pending_actions = <<>> THEN <<>>
    ELSE <<[name |-> Head(pending_actions).name,
            parameters |-> Head(pending_actions).parameters,
            priority |-> Head(pending_actions).priority,
            requires_confirmation |-> Head(pending_actions).requires_confirmation]>>
         \o serialize_actions(Tail(pending_actions))

\* DecisionPlanner._save_context: the record written to context_<user>.json
context_data(context) ==
    [user_id |-> context.user_id,
     current_intent |-> context.current_intent,
     entities |-> context.entities,
     conversation_history |-> context.conversation_history,
     last_updated |-> context.last_updated,
     pending_actions |-> serialize_actions(context.pending_actions)]

save_context(files, context) == Put(files, context.user_id, context_data(context))

\* what a Planner operation leaves behind and returns
Planned(ctxs, files, ret) == [contexts |-> ctxs, context_files |-> files, ret |-> ret]

\* process_intent, lines 67-71: the planned actions are appended to the
\* pending ones, the intent, entities and time of the turn are recorded
updated_context(planned, clock, intent_name, entities) ==
    [planned.context EXCEPT
        !.pending_actions = planned.context.pending_actions \o planned.actions,
        !.current_intent = intent_name,
        !.entities = entities,
        !.last_updated = clock]

\* process_intent, lines 73-76: the context is saved, the plan is returned
saved_plan(ctxs, files, context, planned) ==
    Planned(Put(ctxs, context.user_id, context), save_context(files, context),
            [actions |-> planned.actions, response |-> planned.response])

\* process_intent, lines 58-76, on the contexts _get_or_create_context left
process_in_context(ctxs, files, clock, user_id, intent_name, entities, confidence, original_text) ==
    saved_plan(ctxs, files,
        updated_context(
            plan(intent_name,
                 add_to_history(ctxs[user_id], clock, original_text, intent_name, entities),
                 entities, confidence),
            clock, intent_name, entities),
        plan(intent_name,
             add_to_history(ctxs[user_id], clock, original_text, intent_name, entities),
             entities, confidence))

\* DecisionPlanner.process_intent
process_intent(ctxs, files, clock, user_id, intent_name, entities, confidence, original_text) ==
    process_in_context(get_or_create_context(ctxs, clock, user_id, intent_name, entities),
                       files, clock, user_id, intent_name, entities, confidence,
                       original_text)

\* _load_contexts, lines 321-329: an Action from its record, with the
\* defaults of the optional keys
load_action(action_data) ==
    [name |-> action_data["name"],
     parameters |-> action_data["parameters"],
     priority |-> GetOr(action_data, "priority", 1),
     requires_confirmation |-> GetOr(action_data, "requires_confirmation", FALSE)]

\* _load_contexts, lines 331-338: a ConversationContext from its record
load_context(data) ==
    ConversationContext(data["user_id"], data["current_intent"], data["entities"],
        [i \in DOMAIN GetOr(data, "pending_actions", <<>>) |->
            load_action(data["pending_actions"][i])],
        GetOr(data, "conversation_history", <<>>),
        data["last_updated"])

\* _load_contexts, lines 317-343: a record that raises on a missing key is
\* reported and skipped
loads(data) ==
    /\ {"user_id", "current_intent", "entities", "last_updated"} \subseteq DOMAIN data
    /\ \A i \in DOMAIN GetOr(data, "pending_actions", <<>>) :
          {"name", "parameters"} \subseteq DOMAIN data["pending_actions"][i]

\* DecisionPlanner._load_contexts: the contexts by the user_id of their records
load_contexts(files) ==
    LET loaded == {f \in DOMAIN files : loads(files[f])}
    IN [u \in {files[f]["user_id"] : f \in loaded} |->
           load_context(files[CHOOSE f \in loaded : files[f]["user_id"] = u])]

\* the first index of pending_actions holding an action of that name that
\* requires confirmation, 0 when there is none: the scan of confirm_action
RECURSIVE find_action_from(_, _, _)
find_action_from(pending_actions, action_name, i) ==
    IF i > Len(pending_actions) THEN 0
    ELSE IF /\ pending_actions[i].name = action_name
            /\ pending_actions[i].requires_confirmation
         THEN i
         ELSE find_action_from(pending_actions, action_name, i + 1)

\* remove taking the head of the list instead of the element found
remove_head(list, i) == Tail(list)

\* list.remove(list[i])
remove_at(list, i) == SubSeq(list, 1, i - 1) \o SubSeq(list, i + 1, Len(list))

\* the cleanup of confirm_action left out: nothing else is removed
other_names_kept(pending_actions, action_name) == pending_actions

\* [a for a in pending_actions if a.name != action_name]
RECURSIVE other_names(_, _)
other_names(pending_actions, action_name) ==
    IF pending_actions = <<>> THEN <<>>
    ELSE IF Head(pending_actions).name # action_name
         THEN <<Head(pending_actions)>> \o other_names(Tail(pending_actions), action_name)
         ELSE other_names(Tail(pending_actions), action_name)

\* confirm_action, lines 268-272 and 275-278: the context without the
\* removed actions is saved, the message and the action are returned
confirmed_context(ctxs, files, context, message, action) ==
    Planned(Put(ctxs, context.user_id, context), save_context(files, context),
            [message |-> message, action |-> action])

\* confirm_action, lines 266-278, for the pending action found at index found
confirm_found(ctxs, files, context, action_name, confirmed, found) ==
    IF confirmed
    THEN confirmed_context(ctxs, files,
             [context EXCEPT !.pending_actions =
                 other_names(remove_at(context.pending_actions, found), action_name)],
             "Confirmed! Executing " \o action_name \o ".",
             context.pending_actions[found])
    ELSE confirmed_context(ctxs, files,
             [context EXCEPT !.pending_actions = remove_at(context.pending_actions, found)],
             "Action cancelled. How else can I help you?",
             NoneObj)

\* confirm_action, lines 254-264: the scan and the answer when nothing is found
confirm_in_context(ctxs, files, context, action_name, confirmed, found) ==
    IF found = 0
    THEN Planned(ctxs, files,
             [message |-> "I don't have that action pending for confirmation.",
              action |-> NoneObj])
    ELSE confirm_found(ctxs, files, context, action_name, confirmed, found)

\* confirm_action creating (and saving) a context for a user it does not know
confirm_action_creating(ctxs, files, user_id, action_name, confirmed) ==
    IF user_id \notin DOMAIN ctxs
    THEN confirmed_context(ctxs, files,
             ConversationContext(user_id, "unknown", EmptyDict, <<>>, <<>>, 0),
             "I don't have any pending actions for you.", NoneObj)
    ELSE confirm_in_context(ctxs, files, ctxs[user_id], action_name, confirmed,
             find_action_from(ctxs[user_id].pending_actions, action_name, 1))

\* DecisionPlanner.confirm_action
confirm_action(ctxs, files, user_id, action_name, confirmed) ==
    IF user_id \notin DOMAIN ctxs
    THEN Planned(ctxs, files,
             [message |-> "I don't have any pending actions for you.",
              action |-> NoneObj])
    ELSE confirm_in_context(ctxs, files, ctxs[user_id], action_name, confirmed,
             find_action_from(ctxs[user_id].pending_actions, action_name, 1))

\* del d[k]
Del(d, k) == [x \in DOMAIN d \ {k} |-> d[x]]

\* clear_user_context forgetting the context and leaving its file
clear_user_context_memory_only(ctxs, files, user_id) ==
    IF user_id \in DOMAIN ctxs
    THEN Planned(Del(ctxs, user_id), files, TRUE)
    ELSE Planned(ctxs, files, FALSE)

\* DecisionPlanner.clear_user_context
clear_user_context(ctxs, files, user_id) ==
    IF user_id \in DOMAIN ctxs
    THEN Planned(Del(ctxs, user_id), Del(files, user_id), TRUE)
    ELSE Planned(ctxs, files, FALSE)

-----------------------------------------------------------------------------
(* Intent Extractor (nlp.py).  A keyword is the sequence of its words.     *)

\* EnhancedNLU.intent_keywords, in declaration order
intent_order == <<"book", "cancel", "greet", "query", "system">>

intent_keywords ==
    [book |-> {<<"book">>, <<"schedule">>, <<"reserve">>, <<"set", "up">>, <<"arrange">>,
               <<"slot">>, <<"appointment">>, <<"meeting">>},
     cancel |-> {<<"cancel">>, <<"drop">>, <<"remove">>, <<"delete">>, <<"unbook">>},
     greet |-> {<<"hello">>, <<"hi">>, <<"hey">>, <<"good", "morning">>,
                <<"good", "afternoon">>, <<"good", "evening">>},
     query |-> {<<"what">>, <<"when">>, <<"where">>, <<"how">>, <<"show">>, <<"list">>,
                <<"available">>, <<"free">>},
     system |-> {<<"open">>, <<"launch">>, <<"start">>, <<"run">>, <<"execute">>,
                 <<"shutdown">>, <<"restart">>}]

\* kw in text, for a keyword of one word or of two words
KeywordInText(text, kw) ==
    IF Len(kw) = 1 THEN TextContains(text, kw[1])
    ELSE \E i \in DOMAIN text :
            /\ i + 1 \in DOMAIN text
            /\ WordContains(text[i], kw[1])
            /\ WordContains(text[i + 1], kw[2])

\* kw in token.text: a token holds no blank, so only a one-word keyword can occur
KeywordInToken(token, kw) == Len(kw) = 1 /\ WordContains(token, kw[1])

\* the words "<h>am" and "<h>pm" of the model, each with its hour and marker
MarkedHours ==
    ("11am" :> [hour |-> 11, marker |-> "am"]) @@ ("2pm" :> [hour |-> 2, marker |-> "pm"])
        @@ ("12am" :> [hour |-> 12, marker |-> "am"])

\* EnhancedNLU._normalize_time, for a word "HH:MM" and for a word "<h>am" or "<h>pm"
normalize_time(time_str) ==
    IF time_str \in DOMAIN MarkedHours
    THEN LET h == MarkedHours[time_str].hour
         IN IF MarkedHours[time_str].marker = "pm"
            THEN ClockText(IF h < 12 THEN h + 12 ELSE h, 0)
            ELSE ClockText(h, 0)
    ELSE IF time_str \in ClockTexts
    THEN ClockText(ParseClock(time_str)[1], ParseClock(time_str)[2])
    ELSE time_str

\* the first word of the text that a time pattern matches, 0 when none does
RECURSIVE first_time_word(_, _)
first_time_word(text, i) ==
    IF i > Len(text) THEN 0
    ELSE IF text[i] \in ClockTexts \/ text[i] \in DOMAIN MarkedHours THEN i
    ELSE first_time_word(text, i + 1)

\* EnhancedNLU._extract_time_from_text, for texts whose times are written
\* "HH:MM", "<h>am" or "<h>pm"
extract_time_from_text(text) ==
    IF first_time_word(text, 1) = 0 THEN None
    ELSE normalize_time(text[first_time_word(text, 1)])

\* the words dateparser reads as a day, each with the day
day_words == ("today" :> Today) @@ ("tomorrow" :> Tomorrow) @@ ("yesterday" :> Yesterday)

\* dateparser.parse(text): a date when the whole text is one day word
dateparser_parse(text) ==
    IF Len(text) = 1 /\ text[1] \in DOMAIN day_words THEN day_words[text[1]] ELSE None

\* EnhancedNLU._extract_date_from_text
extract_date_from_text(text) ==
    IF dateparser_parse(text) # None THEN dateparser_parse(text)
    ELSE IF TextContains(text, "today") THEN Today
    ELSE IF TextContains(text, "tomorrow") THEN Tomorrow
    ELSE IF TextContains(text, "yesterday") THEN Yesterday
    ELSE None

\* EnhancedNLU._extract_entities_rules, and the pattern part of
\* _extract_entities_spacy laid over the tagger's entities
extract_entities(text, tagged) ==
    LET time_entity == extract_time_from_text(text)
        date_entity == extract_date_from_text(text)
        with_time == IF Truthy(time_entity) THEN Put(tagged, "time", time_entity)
                     ELSE tagged
    IN IF Truthy(date_entity) THEN Put(with_time, "date", date_entity) ELSE with_time

\* Intent(name, entities, confidence); the confidence is in hundredths
Intent(name, entities, confidence) ==
    [name |-> name, entities |-> entities, confidence |-> confidence]

\* EnhancedNLU._parse_with_rules: the first intent with a keyword in the text
RECURSIVE parse_with_rules_from(_, _)
parse_with_rules_from(text, i) ==
    IF i > Len(intent_order) THEN Intent("unknown", EmptyDict, 0)
    ELSE IF \E kw \in intent_keywords[intent_order[i]] : KeywordInText(text, kw)
    THEN Intent(intent_order[i], extract_entities(text, EmptyDict), 80)
    ELSE parse_with_rules_from(text, i + 1)

\* _parse_with_rules returning the intent declared last among those that match
parse_with_rules_latest(text) ==
    LET matching == {i \in DOMAIN intent_order :
                        \E kw \in intent_keywords[intent_order[i]] : KeywordInText(text, kw)}
    IN IF matching = {} THEN Intent("unknown", EmptyDict, 0)
       ELSE Intent(intent_order[CHOOSE i \in matching : \A j \in matching : j <= i],
                   extract_entities(text, EmptyDict), 80)

parse_with_rules(text) == parse_with_rules_from(text, 1)

\* the score of an intent: the tokens that hold one of its keywords
intent_score(doc, intent) ==
    Cardinality({i \in DOMAIN doc :
                    \E kw \in intent_keywords[intent] : KeywordInToken(doc[i], kw)})

\* max(intent_scores.items(), key=score): the first intent of the highest score
best_intent(doc) ==
    LET top == CHOOSE n \in {intent_score(doc, intent_order[i]) : i \in DOMAIN intent_order} :
                   \A i \in DOMAIN intent_order : intent_score(doc, intent_order[i]) <= n
        first == CHOOSE i \in DOMAIN intent_order :
                     /\ intent_score(doc, intent_order[i]) = top
                     /\ \A j \in 1 .. (i - 1) : intent_score(doc, intent_order[j]) # top
    IN intent_order[first]

\* EnhancedNLU._parse_with_spacy; tagged holds the entities of the tagger
parse_with_spacy(doc, tagged) ==
    IF \A i \in DOMAIN intent_order : intent_score(doc, intent_order[i]) = 0
    THEN Intent("unknown", EmptyDict, 0)
    ELSE LET name == best_intent(doc)
             hundredths == (intent_score(doc, name) * 100)
                               \div Cardinality(intent_keywords[name])
         IN Intent(name, extract_entities(doc, tagged),
                   IF hundredths > 100 THEN 100 ELSE hundredths)

\* text.lower().strip(), word by word
LowerText(text) == [i \in DOMAIN text |-> Lower(text[i])]

\* EnhancedNLU.parse_intent
parse_intent(text, use_spacy, tagged) ==
    IF use_spacy THEN parse_with_spacy(LowerText(text), tagged)
    ELSE parse_with_rules(LowerText(text))

-----------------------------------------------------------------------------
(* The /process pipeline (app.py) *)

\* what the loop of process() has done so far
Executed(cal, arts, results) == [calendar |-> cal, artifacts |-> arts, results |-> results]

\* execution_results.append({...}) after one execute_action
with_result(done, action_name, o) ==
    Executed(o.calendar, o.artifacts,
             Append(done.results,
                    [action |-> action_name, success |-> o.ret.success,
                     message |-> o.ret.message, data |-> o.ret.data]))

\* the loop over the planned actions: each action that does not require
\* confirmation is executed, in order, against the calendar the one before left
RECURSIVE execute_planned(_, _, _, _, _, _)
execute_planned(cfg, clock, actions, os_ok, i, done) ==
    IF i > Len(actions) THEN done
    ELSE IF actions[i].requires_confirmation
    THEN execute_planned(cfg, clock, actions, os_ok, i + 1, done)
    ELSE execute_planned(cfg, clock, actions, os_ok, i + 1,
             with_result(done, actions[i].name,
                 execute_action(cfg, done.calendar, done.artifacts, clock,
                                actions[i].name, actions[i].parameters, os_ok)))

\* [r["message"] for r in execution_results if r["success"]]
RECURSIVE success_messages(_)
success_messages(execution_results) ==
    IF execution_results = <<>> THEN <<>>
    ELSE IF Head(execution_results).success
         THEN <<Head(execution_results).message>>
              \o success_messages(Tail(execution_results))
         ELSE success_messages(Tail(execution_results))

\* "; ".join(list)
RECURSIVE JoinSemicolon(_)
JoinSemicolon(list) ==
    IF list = <<>> THEN ""
    ELSE IF Len(list) = 1 THEN list[1]
    ELSE list[1] \o "; " \o JoinSemicolon(Tail(list))

\* the "actions" list of the response
RECURSIVE proposed_actions(_)
proposed_actions(actions) ==
    IF actions = <<>> THEN <<>>
    ELSE <<[name |-> Head(actions).name, parameters |-> Head(actions).parameters,
            requires_confirmation |-> Head(actions).requires_confirmation]>>
         \o proposed_actions(Tail(actions))

\* process(), step 4 and the response
response_of(intent, planned, executed, messages) ==
    [calendar |-> executed.calendar, artifacts |-> executed.artifacts,
     contexts |-> planned.contexts, context_files |-> planned.context_files,
     ret |-> [reply |-> IF messages # <<>> THEN JoinSemicolon(messages)
                        ELSE planned.ret.response,
              intent |-> intent.name,
              confidence |-> intent.confidence,
              entities |-> intent.entities,
              actions |-> proposed_actions(planned.ret.actions),
              execution_results |-> executed.results]]

\* process(), steps 3 and 4
handle_executed(intent, planned, executed) ==
    response_of(intent, planned, executed, success_messages(executed.results))

\* process(), steps 3 and 4, on what process_intent has returned
handle_planned(cfg, cal, arts, clock, intent, os_ok, planned) ==
    handle_executed(intent, planned,
        execute_planned(cfg, clock, planned.ret.actions, os_ok, 1,
                        Executed(cal, arts, <<>>)))

\* process(), steps 2 to 4: plan, execute what needs no confirmation, reply
handle_intent(cfg, cal, arts, ctxs, files, clock, user_id, intent, text, os_ok) ==
    handle_planned(cfg, cal, arts, clock, intent, os_ok,
        process_intent(ctxs, files, clock, user_id, intent.name, intent.entities,
                       intent.confidence, text))

-----------------------------------------------------------------------------
(* The state after construction (create_app on an empty data directory):  *)
(* the executor has written its default slots.json and an empty calendar, *)
(* the planner has found no context record to load.                       *)

Init ==
    /\ slots_file = ExecutorDefaultSlots
    /\ calendar = EmptyDict
    /\ artifacts = {}
    /\ contexts = EmptyDict
    /\ context_files = EmptyDict
    /\ now = 0
    /\ result = [op |-> "init"]
    /\ threads = EmptyDict

\* context records found in the data directory at start-up: a booking that
\* waits for its time, the same followed by a second pending action and
\* written without the optional keys, the record process_intent writes after
\* a booking request that gave only the date, and a record that does not load
WaitingBooking ==
    [name |-> "book_slot", parameters |-> [time |-> None, date |-> Tomorrow],
     priority |-> 1, requires_confirmation |-> TRUE]

StoredContexts ==
    {[user_id |-> "u1", current_intent |-> "book_slot",
      entities |-> [date |-> Tomorrow], conversation_history |-> <<>>,
      last_updated |-> 0, pending_actions |-> <<WaitingBooking>>],
     [user_id |-> "u1", current_intent |-> "book_slot",
      entities |-> [date |-> Tomorrow], last_updated |-> 0,
      pending_actions |->
          <<[name |-> "book_slot", parameters |-> [date |-> Tomorrow]],
            [name |-> "query_available_slots", parameters |-> [date |-> Today]]>>],
     [user_id |-> "u1", current_intent |-> "book_slot",
      entities |-> [date |-> Tomorrow], conversation_history |-> <<>>,
      last_updated |-> 0,
      pending_actions |->
          <<Action("clarify_time", [missing |-> "time", date |-> Tomorrow], TRUE)>>],
     [user_id |-> "u1", current_intent |-> "query_slots",
      entities |-> EmptyDict, conversation_history |-> <<>>,
      last_updated |-> 0, pending_actions |-> <<WaitingBooking>>],
     [user_id |-> "u1", current_intent |-> "book_slot",
      entities |-> [date |-> Tomorrow], conversation_history |-> <<>>,
      pending_actions |-> <<WaitingBooking>>]}

\* the state after construction over a data directory that holds a record
InitLoaded ==
    /\ slots_file = ExecutorDefaultSlots
    /\ calendar = EmptyDict
    /\ artifacts = {}
    /\ context_files \in {("u1" :> r) : r \in StoredContexts}
    /\ contexts = load_contexts(context_files)
    /\ now = 0
    /\ result = [op |-> "init"]
    /\ threads = EmptyDict

-----------------------------------------------------------------------------
(* Operations of the booking surface, one call at a time *)

\* storage.book_specific_slot(date_str, time_in), as POST /book calls it
BookSpecific(date_str, time_in) ==
    /\ now < MaxSteps
    /\ LET o == book_specific_slot(read_json(slots_file), read_json(calendar),
                                   date_str, time_in)
       IN /\ calendar' = Kept(calendar, read_json(calendar), o.calendar)
          /\ result' = [op |-> "book_specific_slot", date |-> date_str,
                        time |-> time_in, ret |-> o.ret]
    /\ now' = now + 1
    /\ UNCHANGED <<slots_file, artifacts, contexts, context_files, threads>>

\* storage.book_first_available(date_str)
BookFirstAvailable(date_str) ==
    /\ now < MaxSteps
    /\ LET o == book_first_available(read_json(slots_file), read_json(calendar), date_str)
       IN /\ calendar' = Kept(calendar, read_json(calendar), o.calendar)
          /\ result' = [op |-> "book_first_available", date |-> date_str, ret |-> o.ret]
    /\ now' = now + 1
    /\ UNCHANGED <<slots_file, artifacts, contexts, context_files, threads>>

\* executor.execute_action(action_name, parameters)
Execute(action_name, parameters, os_ok) ==
    /\ now < MaxSteps
    /\ LET o == execute_on_files(slots_file, calendar, artifacts, now,
                                 action_name, parameters, os_ok)
       IN /\ calendar' = o.calendar
          /\ artifacts' = o.artifacts
          /\ result' = [op |-> "execute_action", action_name |-> action_name,
                        parameters |-> parameters, ret |-> o.ret,
                        os_calls |-> os_calls(action_name, parameters)]
    /\ now' = now + 1
    /\ UNCHANGED <<slots_file, contexts, context_files, threads>>

-----------------------------------------------------------------------------
(* Operations of the conversational surface, one call at a time *)

\* process() from step 2 on, and process_text(): the Planner is given an
\* intent, and the actions it returns without a confirmation are executed
HandleIntent(user_id, intent, text, os_ok) ==
    /\ now < MaxSteps
    /\ LET o == handle_intent(slots_file, calendar, artifacts, contexts, context_files,
                              now, user_id, intent, text, os_ok)
       IN /\ calendar' = o.calendar
          /\ artifacts' = o.artifacts
          /\ contexts' = o.contexts
          /\ context_files' = o.context_files
          /\ result' = [op |-> "handle_intent", user_id |-> user_id, text |-> text,
                        ret |-> o.ret]
    /\ now' = now + 1
    /\ UNCHANGED <<slots_file, threads>>

\* process(): the text goes through the Intent Extractor first
Process(user_id, text, use_spacy, os_ok) ==
    /\ now < MaxSteps
    /\ LET o == handle_intent(slots_file, calendar, artifacts, contexts, context_files,
                              now, user_id, parse_intent(text, use_spacy, EmptyDict),
                              text, os_ok)
       IN /\ calendar' = o.calendar
          /\ artifacts' = o.artifacts
          /\ contexts' = o.contexts
          /\ context_files' = o.context_files
          /\ result' = [op |-> "process", user_id |-> user_id, text |-> text,
                        ret |-> o.ret]
    /\ now' = now + 1
    /\ UNCHANGED <<slots_file, threads>>

\* planner.confirm_action(user_id, action_name, confirmed)
Confirm(user_id, action_name, confirmed) ==
    /\ now < MaxSteps
    /\ LET o == confirm_action(contexts, context_files, user_id, action_name, confirmed)
       IN /\ contexts' = o.contexts
          /\ context_files' = o.context_files
          /\ result' = [op |-> "confirm_action", user_id |-> user_id,
                        action_name |-> action_name, confirmed |-> confirmed,
                        ret |-> o.ret]
    /\ now' = now + 1
    /\ UNCHANGED <<slots_file, calendar, artifacts, threads>>

\* the caller of confirm_action executes the action it was handed
ExecuteConfirmed(os_ok) ==
    /\ result.op = "confirm_action"
    /\ result.ret.action # NoneObj
    /\ Execute(result.ret.action.name, result.ret.action.parameters, os_ok)

\* planner.clear_user_context(user_id)
Clear(user_id) ==
    /\ now < MaxSteps
    /\ LET o == clear_user_context(contexts, context_files, user_id)
       IN /\ contexts' = o.contexts
          /\ context_files' = o.context_files
          /\ result' = [op |-> "clear_user_context", user_id |-> user_id, ret |-> o.ret]
    /\ now' = now + 1
    /\ UNCHANGED <<slots_file, calendar, artifacts, threads>>

-----------------------------------------------------------------------------
(* The conversational path driven sequentially with intents of the         *)
(* Planner's dispatch table: turns, confirmations, the execution of what   *)
(* was confirmed                                                           *)

Users == {"u1", "u2"}

\* the turns handed to the pipeline: an intent with its entities, and the text
PlannerTurns ==
    {[intent |-> Intent("book_slot", [time |-> "09:00", date |-> Tomorrow], 80),
      text |-> <<"book", "09:00", "tomorrow">>],
     [intent |-> Intent("book_slot", [time |-> "14:00"], 80),
      text |-> <<"book", "14:00">>],
     [intent |-> Intent("cancel_slot", [time |-> "09:00", date |-> Tomorrow], 80),
      text |-> <<"cancel", "09:00", "tomorrow">>],
     [intent |-> Intent("cancel_slot", [date |-> Tomorrow], 80),
      text |-> <<"cancel", "tomorrow">>],
     [intent |-> Intent("query_slots", [date |-> "my free day"], 80),
      text |-> <<"show", "my", "free", "day">>]}

NextPlanner ==
    \/ \E t \in PlannerTurns : HandleIntent("u1", t.intent, t.text, TRUE)
    \/ \E n \in {"book_slot", "cancel_slot"} : Confirm("u1", n, TRUE)
    \/ ExecuteConfirmed(TRUE)

SpecPlanner == Init /\ [][NextPlanner]_vars

-----------------------------------------------------------------------------
(* The confirmation protocol driven sequentially: turns that leave pending *)
(* actions of several names, confirmations and rejections, clearing        *)

\* turns that propose a book_slot, a clarify_time and a query that needs no
\* confirmation
ConfirmTurns ==
    {[intent |-> Intent("book_slot", [time |-> "09:00", date |-> Tomorrow], 80),
      text |-> <<"book", "09:00", "tomorrow">>],
     [intent |-> Intent("book_slot", [time |-> "14:00"], 80),
      text |-> <<"book", "14:00">>],
     [intent |-> Intent("book_slot", [date |-> Tomorrow], 80),
      text |-> <<"book", "tomorrow">>],
     [intent |-> Intent("query_slots", [date |-> "my free day"], 80),
      text |-> <<"show", "my", "free", "day">>]}

\* the action names handed to confirm_action
ConfirmNames == {"book_slot", "clarify_time", "query_available_slots"}

NextConfirm ==
    \/ \E t \in ConfirmTurns : HandleIntent("u1", t.intent, t.text, TRUE)
    \/ \E u \in Users, n \in ConfirmNames, c \in BOOLEAN : Confirm(u, n, c)
    \/ \E u \in Users : Clear(u)

SpecConfirm == Init /\ [][NextConfirm]_vars

-----------------------------------------------------------------------------
(* The booking surface driven sequentially: the Slot Store and the         *)
(* Executor's book_slot and cancel_slot against one calendar.              *)

\* dates handed to the booking surface
StoreDates == {Today, Tomorrow}

\* times handed to the Slot Store: on its grid, on its grid with padding,
\* and on the Executor's grid only
StoreTimes == {"09:00", Padded("09:00"), "14:00"}

\* parameter dicts handed to book_slot and cancel_slot: a time on both grids,
\* on the Executor's grid only, on neither, None or no time; a date or none
StoreParams ==
    {[time |-> t, date |-> d] : t \in {"09:00", "14:00", "08:00", None}, d \in StoreDates}
        \cup {[time |-> t] : t \in {"09:00", "14:00"}}
        \cup {EmptyDict}

NextStore ==
    \/ \E d \in StoreDates, t \in StoreTimes : BookSpecific(d, t)
    \/ \E d \in StoreDates : BookFirstAvailable(d)
    \/ \E n \in {"book_slot", "cancel_slot"}, p \in StoreParams : Execute(n, p, TRUE)

SpecStore == Init /\ [][NextStore]_vars

-----------------------------------------------------------------------------
(* Properties of the booking surface *)

\* the number of bookings of a date whose time is t
TimesBooked(cal, date_str, t) ==
    Cardinality({i \in DOMAIN get_bookings(cal, date_str) :
                    get_bookings(cal, date_str)[i]["time"] = t})

\* C1: after any sequence of Slot Store bookings and Executor book_slot and
\* cancel_slot calls issued one at a time, no date of the calendar holds two
\* bookings with the same time.
C1_NoDoubleBooking ==
    \A d \in DOMAIN calendar :
        \A i, j \in DOMAIN calendar[d] :
            i # j => calendar[d][i]["time"] # calendar[d][j]["time"]

\* a date holds a booking written by the Slot Store and one written by the
\* Executor, and a booking has been cancelled since
C1_Witness ==
    /\ \E d \in DOMAIN calendar :
          \E i, j \in DOMAIN calendar[d] :
              /\ "booking_id" \in DOMAIN calendar[d][i]
              /\ "booking_id" \notin DOMAIN calendar[d][j]
    /\ result.op = "execute_action"
    /\ result.action_name = "cancel_slot"
    /\ result.ret.success

\* C9: after book_specific_slot(date, t) succeeds, the booked time is t
\* (stripped), it is not in get_available_slots(date), and it appears exactly
\* once among the times of get_bookings(date).
C9_BookedOnceAndUnavailable ==
    (result.op = "book_specific_slot" /\ result.ret.success) =>
        /\ result.ret.booking["time"] = Strip(result.time)
        /\ ~InList(result.ret.booking["time"],
                   get_available_slots(slots_file, calendar, result.date))
        /\ TimesBooked(calendar, result.date, result.ret.booking["time"]) = 1

\* book_specific_slot has just succeeded on a date that already held a booking
C9_Witness ==
    /\ result.op = "book_specific_slot"
    /\ result.ret.success
    /\ Len(get_bookings(calendar, result.date)) >= 2

\* this step is a call of book_specific_slot for a time that is not available
\* on its date when the call is made
UnavailableBookSpecificStep ==
    /\ result'.op = "book_specific_slot"
    /\ ~InList(Strip(result'.time),
               get_available_slots(slots_file, calendar, result'.date))

\* C10: book_specific_slot(date, t) called when t is not in
\* get_available_slots(date) returns failure with no booking and leaves the
\* whole calendar unchanged; when the call before it was the same failed
\* call, it returns the same failure again.
C10_UnavailableFailsUnchanged ==
    [][UnavailableBookSpecificStep =>
          /\ ~result'.ret.success
          /\ result'.ret.booking = NoneObj
          /\ calendar' = calendar
          /\ (/\ result.op = "book_specific_slot"
              /\ result.date = result'.date
              /\ result.time = result'.time
              /\ ~result.ret.success) => result'.ret = result.ret]_vars

\* book_specific_slot has failed twice in a row for a time that is booked
\* on its date
C10_Witness ==
    /\ result.op = "book_specific_slot"
    /\ ~result.ret.success
    /\ Strip(result.time) \in booked_times(calendar, result.date)
    /\ now >= 3

-----------------------------------------------------------------------------
(* The Planner started over stored contexts: follow-up turns of unknown    *)
(* intent, a new booking request, the confirmation and its execution       *)

LoadedTurns ==
    {[intent |-> Intent("unknown", [time |-> "10:00"], 0),
      text |-> <<"10:00">>],
     [intent |-> Intent("unknown", [time |-> "14:00", date |-> Today], 0),
      text |-> <<"14:00", "today">>],
     [intent |-> Intent("unknown", [date |-> Today], 0),
      text |-> <<"today">>],
     [intent |-> Intent("unknown", EmptyDict, 0),
      text |-> <<"hmm">>],
     [intent |-> Intent("book_slot", [date |-> Tomorrow], 80),
      text |-> <<"book", "tomorrow">>]}

NextLoaded ==
    \/ \E t \in LoadedTurns : HandleIntent("u1", t.intent, t.text, TRUE)
    \/ \E n \in {"book_slot", "clarify_time"}, c \in BOOLEAN : Confirm("u1", n, c)
    \/ ExecuteConfirmed(TRUE)

SpecLoaded == InitLoaded /\ [][NextLoaded]_vars

-----------------------------------------------------------------------------
(* The whole pipeline: the text goes through the Intent Extractor, the     *)
(* Planner and the Executor; confirmations and their execution follow      *)

BookAtEleven == <<"book", "a", "slot", "tomorrow", "at", "11:00">>

PipelineTexts ==
    {BookAtEleven,
     <<"hello">>,
     <<"what", "is", "free", "today">>,
     <<"cancel", "11:00", "tomorrow">>,
     <<"11:00">>}

NextPipeline ==
    \/ \E text \in PipelineTexts, use_spacy \in BOOLEAN :
          Process("u1", text, use_spacy, TRUE)
    \/ \E n \in {"book_slot", "clarify_intent"}, c \in BOOLEAN : Confirm("u1", n, c)
    \/ ExecuteConfirmed(TRUE)

SpecPipeline == Init /\ [][NextPipeline]_vars

-----------------------------------------------------------------------------
(* Bookings served by the threads of the web server (threaded=True): a     *)
(* request runs its availability check, its second read of bookings.json   *)
(* and its write as separate steps, and the steps of two requests          *)
(* interleave freely, since neither the Slot Store nor the Executor takes  *)
(* a lock. A read and a write of the file are each taken as one step.      *)

Threads == {"t1", "t2"}

ConcTimes == {"09:00", "09:30"}

\* the thread is free to take a request
Idle(t) == IF t \in DOMAIN threads THEN threads[t].pc = "done" ELSE TRUE

\* what a booking request returns when its availability check fails, None
\* when the check passes
refusal(path, cfg, cal, arts, clock, date, time) ==
    IF path = "store"
    THEN IF book_specific_slot(cfg, cal, date, time).ret.success THEN NoneObj
         ELSE book_specific_slot(cfg, cal, date, time).ret
    ELSE IF execute_book_slot(cfg, cal, arts, clock,
                              [time |-> time, date |-> date]).ret.success
         THEN NoneObj
         ELSE execute_book_slot(cfg, cal, arts, clock,
                                [time |-> time, date |-> date]).ret

\* a thread of the server accepts a booking request: POST /book for the
\* Slot Store, execute_action("book_slot") for the Executor
Request(t, path, date, time) ==
    /\ now < MaxSteps
    /\ Idle(t)
    /\ threads' = Put(threads, t,
                      [pc |-> "check", path |-> path, date |-> date, time |-> time,
                       data |-> EmptyDict, ret |-> NoneObj])
    /\ now' = now + 1
    /\ UNCHANGED <<slots_file, calendar, artifacts, contexts, context_files, result>>

\* book_specific_slot lines 69-72, _execute_book_slot lines 61-79: the
\* availability check against the file as it is now
CheckAvailable(t) ==
    /\ t \in DOMAIN threads
    /\ threads[t].pc = "check"
    /\ LET r == refusal(threads[t].path, slots_file, calendar, artifacts, now,
                        threads[t].date, threads[t].time)
       IN threads' = Put(threads, t,
                         IF r = NoneObj THEN [threads[t] EXCEPT !.pc = "read"]
                         ELSE [threads[t] EXCEPT !.pc = "done", !.ret = r])
    /\ UNCHANGED <<slots_file, calendar, artifacts, contexts, context_files, now, result>>

\* book_specific_slot line 73, _save_booking line 370: the file is read again
ReadBookings(t) ==
    /\ t \in DOMAIN threads
    /\ threads[t].pc = "read"
    /\ threads' = Put(threads, t, [threads[t] EXCEPT !.pc = "write", !.data = calendar])
    /\ UNCHANGED <<slots_file, calendar, artifacts, contexts, context_files, now, result>>

\* book_specific_slot lines 74-81, _save_booking lines 373-380 and
\* _execute_book_slot lines 91-100: the booking is appended to what was read,
\* the file is written, success is returned
WriteBookings(t) ==
    /\ t \in DOMAIN threads
    /\ threads[t].pc = "write"
    /\ LET th == threads[t]
           booking == [time |-> Strip(th.time)]
           booking_data == [time |-> th.time, date |-> th.date, booked_at |-> now,
                            booking_id |-> th.date \o "_" \o NoColon(th.time)]
           ics_file == generate_ics_file(booking_data)
       IN IF th.path = "store"
          THEN /\ calendar' = Put(th.data, th.date,
                                  Append(get_bookings(th.data, th.date), booking))
               /\ artifacts' = artifacts
               /\ threads' = Put(threads, t,
                      [th EXCEPT !.pc = "done", !.data = EmptyDict,
                          !.ret = [success |-> TRUE,
                                   message |-> "Booked " \o Strip(th.time)
                                                   \o " successfully.",
                                   booking |-> booking]])
          ELSE /\ calendar' = save_booking(th.data, booking_data)
               /\ artifacts' = IF ics_file = None THEN artifacts
                               ELSE artifacts \cup {ics_file}
               /\ threads' = Put(threads, t,
                      [th EXCEPT !.pc = "done", !.data = EmptyDict,
                          !.ret = ExecutionResult(TRUE,
                                      "Successfully booked " \o th.time \o " on "
                                          \o th.date,
                                      booking_data,
                                      IF ics_file = None THEN <<>> ELSE <<ics_file>>)])
    /\ UNCHANGED <<slots_file, contexts, context_files, now, result>>

NextConc ==
    \/ \E t \in Threads, path \in {"store", "executor"}, time \in ConcTimes :
          Request(t, path, Tomorrow, time)
    \/ \E t \in Threads : CheckAvailable(t)
    \/ \E t \in Threads : ReadBookings(t)
    \/ \E t \in Threads : WriteBookings(t)

SpecConc == Init /\ [][NextConc]_vars

-----------------------------------------------------------------------------
(* Properties of the conversational path *)

\* C8: when the prior intent of the user is book_slot and the first pending
\* action is a book_slot with a date and no time, an utterance of unknown
\* intent that carries only a time t returns no new action, makes the
\* parameters of that first pending action {time t, the known date}, and
\* leaves the number of pending actions as it was.
C8_SlotFillingMerge ==
    [][(/\ result'.op = "handle_intent"
        /\ result'.ret.intent = "unknown"
        /\ DOMAIN result'.ret.entities = {"time"}
        /\ Truthy(result'.ret.entities["time"])
        /\ result'.user_id \in DOMAIN contexts
        /\ contexts[result'.user_id].current_intent = "book_slot"
        /\ contexts[result'.user_id].pending_actions # <<>>
        /\ contexts[result'.user_id].pending_actions[1].name = "book_slot"
        /\ Truthy(Get(contexts[result'.user_id].pending_actions[1].parameters, "date"))
        /\ ~Truthy(Get(contexts[result'.user_id].pending_actions[1].parameters, "time"))) =>
          LET before == contexts[result'.user_id].pending_actions
              after == contexts'[result'.user_id].pending_actions
          IN /\ result'.ret.actions = <<>>
             /\ result'.ret.execution_results = <<>>
             /\ Len(after) = Len(before)
             /\ after[1].parameters
                    = [time |-> result'.ret.entities["time"],
                       date |-> before[1].parameters["date"]]
             /\ after[1].name = "book_slot"
             /\ \A i \in 2 .. Len(before) : after[i] = before[i]]_vars

\* the first turn after start-up was a bare time of unknown intent, two
\* actions were pending, and the first is now the booking with both values
C8_Witness ==
    /\ result.op = "handle_intent"
    /\ result.ret.intent = "unknown"
    /\ result.ret.actions = <<>>
    /\ DOMAIN result.ret.entities = {"time"}
    /\ Len(contexts[result.user_id].conversation_history) = 1
    /\ Len(contexts[result.user_id].pending_actions) = 2
    /\ contexts[result.user_id].pending_actions[1].name = "book_slot"
    /\ contexts[result.user_id].pending_actions[1].parameters
          = [time |-> result.ret.entities["time"], date |-> Tomorrow]

\* the action the utterance BookAtEleven is to propose
ElevenTomorrow == [time |-> "11:00", date |-> Tomorrow]

\* C3: with the grid 09:00..11:30 and no bookings, handling "book a slot
\* tomorrow at 11:00" through Extractor and Planner yields intent "book" and
\* exactly one proposed action book_slot{time 11:00, date tomorrow} that
\* requires confirmation, with nothing executed; a following
\* confirm_action(user, "book_slot", true) returns that action; executing it
\* succeeds and records the booking, and the available slots of tomorrow no
\* longer hold 11:00.
C3_EndToEnd ==
    [][/\ (/\ result'.op = "process"
           /\ result'.text = BookAtEleven
           /\ calendar = EmptyDict
           /\ contexts = EmptyDict) =>
             /\ generate_daily_slots(slots_file)
                   = <<"09:00", "09:30", "10:00", "10:30", "11:00", "11:30">>
             /\ result'.ret.intent = "book"
             /\ result'.ret.actions
                   = <<[name |-> "book_slot", parameters |-> ElevenTomorrow,
                        requires_confirmation |-> TRUE]>>
             /\ result'.ret.execution_results = <<>>
             /\ calendar' = calendar
       /\ (/\ result.op = "process"
           /\ result.text = BookAtEleven
           /\ Len(contexts[result.user_id].conversation_history) = 1
           /\ result'.op = "confirm_action"
           /\ result'.user_id = result.user_id
           /\ result'.action_name = "book_slot"
           /\ result'.confirmed) =>
             /\ result'.ret.action # NoneObj
             /\ result'.ret.action.name = "book_slot"
             /\ result'.ret.action.parameters = ElevenTomorrow
       /\ (/\ result.op = "confirm_action"
           /\ result.ret.action # NoneObj
           /\ result.ret.action.name = "book_slot"
           /\ result.ret.action.parameters = ElevenTomorrow
           /\ calendar = EmptyDict
           /\ result'.op = "execute_action") =>
             /\ result'.ret.success
             /\ TimesBooked(calendar', Tomorrow, "11:00") = 1
             /\ ~InList("11:00", get_available_slots(slots_file, calendar', Tomorrow))]_vars

\* the threads whose request for that date and time has returned success
Succeeded(date, time) ==
    {t \in DOMAIN threads : /\ threads[t].pc = "done"
                            /\ threads[t].ret.success
                            /\ threads[t].date = date
                            /\ Strip(threads[t].time) = time}

\* C2: the read-check-append-persist sequence of a booking is mutually
\* exclusive across the threads of the server: of the bookings for one
\* (date, time) at most one reports success, and the calendar holds at most
\* one booking for that (date, time).
C2_BookingMutualExclusion ==
    \A time \in ConcTimes :
        /\ Cardinality(Succeeded(Tomorrow, time)) <= 1
        /\ TimesBooked(calendar, Tomorrow, time) <= 1

\* the names of the actions that change the calendar
BookingActions == {"book_slot", "cancel_slot"}

\* every book_slot and cancel_slot in the list requires confirmation
AllNeedConfirmation(actions) ==
    \A i \in DOMAIN actions :
        actions[i].name \in BookingActions => actions[i].requires_confirmation

\* C4: handling an utterance (process_intent and the execution of the
\* returned actions that need no confirmation) leaves the calendar as it was,
\* every book_slot and cancel_slot the Planner proposes or holds pending
\* requires confirmation, and the calendar changes only in the execution of a
\* book_slot or cancel_slot that confirm_action(user, name, true) has just
\* returned.
C4_CalendarOnlyAfterConfirm ==
    [][/\ result'.op = "handle_intent" =>
            /\ calendar' = calendar
            /\ AllNeedConfirmation(result'.ret.actions)
            /\ \A u \in DOMAIN contexts' :
                  AllNeedConfirmation(contexts'[u].pending_actions)
       /\ calendar' # calendar =>
            /\ result.op = "confirm_action"
            /\ result.confirmed
            /\ result.ret.action # NoneObj
            /\ result.ret.action.name \in BookingActions
            /\ result'.op = "execute_action"
            /\ result'.action_name = result.ret.action.name
            /\ result'.parameters = result.ret.action.parameters]_vars

\* an utterance has just been handled that proposes a book_slot for a time
\* the Executor would book, after a confirmed booking has changed the calendar
C4_Witness ==
    /\ result.op = "handle_intent"
    /\ calendar # EmptyDict
    /\ \E i \in DOMAIN result.ret.actions :
          /\ result.ret.actions[i].name = "book_slot"
          /\ InList(result.ret.actions[i].parameters["time"],
                    executor_get_available_slots(slots_file, calendar,
                        result.ret.actions[i].parameters["date"]))

\* the pending action at index i has that name and requires confirmation
Matches(pending, action_name, i) ==
    pending[i].name = action_name /\ pending[i].requires_confirmation

\* the user has a context with a pending action of that name that requires
\* confirmation
HasMatch(ctxs, user_id, action_name) ==
    /\ user_id \in DOMAIN ctxs
    /\ \E i \in DOMAIN ctxs[user_id].pending_actions :
          Matches(ctxs[user_id].pending_actions, action_name, i)

\* the index of the first pending action of that name that requires confirmation
FirstMatch(pending, action_name) ==
    CHOOSE i \in DOMAIN pending :
        /\ Matches(pending, action_name, i)
        /\ \A j \in 1 .. (i - 1) : ~Matches(pending, action_name, j)

\* the context of the user differs from the one before in its pending actions only
OnlyPendingChanged(u) ==
    /\ u \in DOMAIN contexts'
    /\ contexts' = Put(contexts, u,
                       [contexts[u] EXCEPT !.pending_actions =
                           contexts'[u].pending_actions])

\* the durable record of the user is the serialized context, the records of
\* the other users are untouched
Persisted(u) ==
    context_files' = Put(context_files, u, context_data(contexts'[u]))

\* C5: confirm_action(user, name, true) with a matching pending action returns
\* the first such action in proposal order, removes it and every other pending
\* action of that name, leaves the pending actions of other names unchanged
\* and in order, and persists the context.
C5_ConfirmTrue ==
    [][(/\ result'.op = "confirm_action"
        /\ result'.confirmed
        /\ HasMatch(contexts, result'.user_id, result'.action_name)) =>
          LET u == result'.user_id
              n == result'.action_name
              pending == contexts[u].pending_actions
          IN /\ result'.ret.action = pending[FirstMatch(pending, n)]
             /\ OnlyPendingChanged(u)
             /\ contexts'[u].pending_actions
                    = SelectSeq(pending, LAMBDA a : a.name # n)
             /\ Persisted(u)]_vars

\* a confirmation has returned a book_slot out of three pending actions of
\* which two were book_slot actions: one action of another name is left
C5_Witness ==
    /\ result.op = "confirm_action"
    /\ result.confirmed
    /\ result.ret.action # NoneObj
    /\ result.ret.action.name = "book_slot"
    /\ Len(contexts[result.user_id].conversation_history) = 3
    /\ Len(contexts[result.user_id].pending_actions) = 1

\* C6: confirm_action(user, name, false) with a matching pending action removes
\* exactly the first such action, returns no action, leaves every other
\* pending action (later ones of the same name too) in place and in order, and
\* persists the context.
C6_ConfirmFalse ==
    [][(/\ result'.op = "confirm_action"
        /\ ~result'.confirmed
        /\ HasMatch(contexts, result'.user_id, result'.action_name)) =>
          LET u == result'.user_id
              n == result'.action_name
              pending == contexts[u].pending_actions
              first == FirstMatch(pending, n)
          IN /\ result'.ret.action = NoneObj
             /\ OnlyPendingChanged(u)
             /\ contexts'[u].pending_actions
                    = SubSeq(pending, 1, first - 1)
                        \o SubSeq(pending, first + 1, Len(pending))
             /\ Persisted(u)]_vars

\* a rejection has removed one of three pending actions, not the first of the
\* list, and a later action of the same name is still pending
C6_Witness ==
    /\ result.op = "confirm_action"
    /\ ~result.confirmed
    /\ result.ret.message = "Action cancelled. How else can I help you?"
    /\ Len(contexts[result.user_id].conversation_history) = 3
    /\ Len(contexts[result.user_id].pending_actions) = 2
    /\ contexts[result.user_id].pending_actions[1].name # result.action_name
    /\ contexts[result.user_id].pending_actions[2].name = result.action_name

\* C7: confirm_action for a user without a context, or without a pending
\* action of that name that requires confirmation, returns a failure message
\* and no action, and changes neither the in-memory contexts (none is
\* created) nor the durable records.
C7_ConfirmNoMatch ==
    [][(/\ result'.op = "confirm_action"
        /\ ~HasMatch(contexts, result'.user_id, result'.action_name)) =>
          /\ result'.ret.action = NoneObj
          /\ result'.ret.message \in
                {"I don't have any pending actions for you.",
                 "I don't have that action pending for confirmation."}
          /\ contexts' = contexts
          /\ context_files' = context_files
          /\ calendar' = calendar]_vars

\* a confirmation has failed for a user who holds a pending action of that
\* name which needs no confirmation, while another user has no context
C7_Witness ==
    /\ result.op = "confirm_action"
    /\ result.ret.message = "I don't have that action pending for confirmation."
    /\ \E i \in DOMAIN contexts[result.user_id].pending_actions :
          contexts[result.user_id].pending_actions[i].name = result.action_name
    /\ DOMAIN contexts # Users

-----------------------------------------------------------------------------
(* The Slot Store over a slots.json of its own format (start_time,         *)
(* slot_count, slot_step_minutes): the grid is read by GET /slots          *)

\* the largest slot_count of the configurations
MaxSlots == 3

\* day starts in the morning and late in the evening
GridStarts == {"09:00", "22:30", "23:30"}

GridSteps == {30, 60}

SlotConfigs ==
    {[start_time |-> s, slot_count |-> n, slot_step_minutes |-> m] :
        s \in GridStarts, n \in 0 .. MaxSlots, m \in GridSteps}

\* the state after construction over a data directory whose slots.json holds
\* one of the configurations
InitGrid ==
    /\ slots_file \in SlotConfigs
    /\ calendar = EmptyDict
    /\ artifacts = {}
    /\ contexts = EmptyDict
    /\ context_files = EmptyDict
    /\ now = 0
    /\ result = [op |-> "init"]
    /\ threads = EmptyDict

\* get_slots(): GET /slots?date=...
GetSlots(date_str) ==
    /\ now < MaxSteps
    /\ result' = [op |-> "get_slots", date |-> date_str,
                  ret |-> get_available_slots(read_json(slots_file), read_json(calendar),
                                              date_str)]
    /\ now' = now + 1
    /\ UNCHANGED <<slots_file, calendar, artifacts, contexts, context_files, threads>>

NextGrid ==
    \/ \E d \in StoreDates : GetSlots(d)
    \/ \E d \in StoreDates : BookFirstAvailable(d)
    \/ \E t \in {"09:00", "23:30"} : BookSpecific(Today, t)

SpecGrid == InitGrid /\ [][NextGrid]_vars

\* the minute of the day a clock text names
MinuteOfDay(s) == ParseClock(s)[1] * 60 + ParseClock(s)[2]

\* C11: for every slot configuration with slot_count N and every date that
\* has no booking, get_available_slots(date) returns exactly N entries, in
\* non-decreasing time order.
C11_GridCountAndOrder ==
    (result.op = "get_slots" /\ get_bookings(calendar, result.date) = <<>>) =>
        /\ Len(result.ret) = slots_file["slot_count"]
        /\ \A i, j \in DOMAIN result.ret :
              i < j => MinuteOfDay(result.ret[i]) <= MinuteOfDay(result.ret[j])

-----------------------------------------------------------------------------
(* Properties of the Executor's booking and cancellation *)

\* the date a book_slot or cancel_slot with these parameters works on
DateOf(parameters) ==
    IF Truthy(Get(parameters, "date")) THEN Get(parameters, "date") ELSE Today

\* the step is an execution of that action
ExecutionOf(action_name) ==
    result'.op = "execute_action" /\ result'.action_name = action_name

\* C12: book_slot re-validates availability against the calendar as stored
\* when it executes: for a time that is booked on that date (by the Slot
\* Store or the Executor) or is not on the Executor's grid, it returns
\* success=false with the slot-unavailable message and leaves the calendar
\* unchanged.
C12_RevalidatesAtExecution ==
    [][(/\ ExecutionOf("book_slot")
        /\ Truthy(Get(result'.parameters, "time"))
        /\ \/ TimesBooked(calendar, DateOf(result'.parameters),
                          result'.parameters["time"]) > 0
           \/ ~InList(result'.parameters["time"], generate_time_slots(slots_file))) =>
          /\ ~result'.ret.success
          /\ result'.ret.message
                = "Slot " \o result'.parameters["time"] \o " is not available on "
                      \o DateOf(result'.parameters)
          /\ calendar' = calendar
          /\ artifacts' = artifacts]_vars

\* a book_slot has just been refused for a time of the grid that the Slot
\* Store had booked on that date
C12_Witness ==
    /\ result.op = "execute_action"
    /\ result.action_name = "book_slot"
    /\ ~result.ret.success
    /\ Truthy(Get(result.parameters, "time"))
    /\ InList(result.parameters["time"], generate_time_slots(slots_file))
    /\ \E i \in DOMAIN get_bookings(calendar, DateOf(result.parameters)) :
          get_bookings(calendar, DateOf(result.parameters))[i]
              = [time |-> result.parameters["time"]]

\* book_slot and cancel_slot parameters over times of the Executor's grid on
\* the hour and on the half hour
HalfHourParams ==
    {[time |-> t, date |-> d] : t \in {"09:00", "09:30", "16:30"}, d \in StoreDates}

NextInvite ==
    \/ \E p \in HalfHourParams : Execute("book_slot", p, TRUE)
    \/ \E p \in HalfHourParams : Execute("cancel_slot", p, TRUE)
    \/ \E p \in HalfHourParams : Execute("create_ics", [booking_data |-> p], TRUE)

SpecInvite == Init /\ [][NextInvite]_vars

\* C13: every book_slot execution that returns success=true has written the
\* booking to the calendar and returns the booking together with the path of
\* a generated calendar-invite artifact (files_created is not empty), for
\* every bookable time of the grid, times on the half hour included.
C13_SuccessCarriesInvite ==
    (/\ result.op = "execute_action"
     /\ result.action_name = "book_slot"
     /\ result.ret.success) =>
        /\ InList(result.ret.data, get_bookings(calendar, DateOf(result.parameters)))
        /\ result.ret.data["time"] = result.parameters["time"]
        /\ result.ret.files_created # <<>>
        /\ \A i \in DOMAIN result.ret.files_created :
              result.ret.files_created[i] \in artifacts

\* C14: a cancel_slot that succeeds removes exactly the bookings of its date
\* whose time is the given time, or every booking of the date when no time
\* is given; the bookings of other dates are unchanged, and with a time
\* given the other bookings of the date keep their order.
C14_CancelRemovesExactly ==
    [][(ExecutionOf("cancel_slot") /\ result'.ret.success) =>
          LET date == DateOf(result'.parameters)
              time == Get(result'.parameters, "time")
              before == get_bookings(calendar, date)
          IN /\ get_bookings(calendar', date)
                   = IF Truthy(time)
                     THEN SelectSeq(before, LAMBDA b : b["time"] # time)
                     ELSE <<>>
             /\ Len(get_bookings(calendar', date)) < Len(before)
             /\ \A d \in (DOMAIN calendar \cup DOMAIN calendar') \ {date} :
                   get_bookings(calendar', d) = get_bookings(calendar, d)]_vars

\* a cancel_slot with a time has succeeded on a date that keeps another
\* booking, while another date holds bookings too
C14_Witness ==
    /\ result.op = "execute_action"
    /\ result.action_name = "cancel_slot"
    /\ result.ret.success
    /\ Truthy(Get(result.parameters, "time"))
    /\ get_bookings(calendar, DateOf(result.parameters)) # <<>>
    /\ \E d \in DOMAIN calendar \ {DateOf(result.parameters)} : calendar[d] # <<>>

\* C15: a cancel_slot for a date and time with no matching booking, or with
\* no time for a date without bookings, returns success=false with the
\* no-booking-found message and leaves the calendar unchanged.
C15_CancelNothingFound ==
    [][(/\ ExecutionOf("cancel_slot")
        /\ IF Truthy(Get(result'.parameters, "time"))
           THEN TimesBooked(calendar, DateOf(result'.parameters),
                            result'.parameters["time"]) = 0
           ELSE get_bookings(calendar, DateOf(result'.parameters)) = <<>>) =>
          /\ ~result'.ret.success
          /\ result'.ret.message
                = "No booking found for "
                    \o (IF Truthy(Get(result'.parameters, "time"))
                        THEN result'.parameters["time"] ELSE "any time")
                    \o " on " \o DateOf(result'.parameters)
          /\ calendar' = calendar]_vars

\* a cancel_slot has failed for a time that is not booked on a date which
\* holds another booking
C15_Witness ==
    /\ result.op = "execute_action"
    /\ result.action_name = "cancel_slot"
    /\ ~result.ret.success
    /\ Truthy(Get(result.parameters, "time"))
    /\ get_bookings(calendar, DateOf(result.parameters)) # <<>>

-----------------------------------------------------------------------------
(* A long conversation of one user: more turns than the history keeps *)

\* the number of turns of the conversation
MaxTurns == 11

\* a turn of the conversation: process_text() / process() from step 2 on
Converse(user_id, intent, text) ==
    /\ now < MaxTurns
    /\ LET o == handle_intent(slots_file, calendar, artifacts, contexts, context_files,
                              now, user_id, intent, text, TRUE)
       IN /\ calendar' = o.calendar
          /\ artifacts' = o.artifacts
          /\ contexts' = o.contexts
          /\ context_files' = o.context_files
          /\ result' = [op |-> "handle_intent", user_id |-> user_id, text |-> text,
                        ret |-> o.ret]
    /\ now' = now + 1
    /\ UNCHANGED <<slots_file, threads>>

\* two greetings, which leave no pending action
Greetings ==
    {[intent |-> Intent("greet", EmptyDict, 80), text |-> <<"hello">>],
     [intent |-> Intent("greet", EmptyDict, 80), text |-> <<"good", "morning">>]}

NextChat == \E t \in Greetings : Converse("u1", t.intent, t.text)

SpecChat == Init /\ [][NextChat]_vars

\* the smaller of two numbers
Min(a, b) == IF a < b THEN a ELSE b

\* C16: after n process_intent turns of one user the history holds exactly
\* min(n, 10) entries, the most recent turns in their order: each turn
\* appends its entry and drops the oldest entry once there are more than 10
\* (the turn number n is the clock, the entry of turn k is stamped k - 1).
C16_HistoryKeepsLastTen ==
    [][result'.op = "handle_intent" =>
          LET u == result'.user_id
              before == IF u \in DOMAIN contexts
                        THEN contexts[u].conversation_history ELSE <<>>
              after == contexts'[u].conversation_history
              entry == [timestamp |-> now, text |-> result'.text,
                        intent |-> result'.ret.intent,
                        entities |-> result'.ret.entities]
          IN /\ Len(after) = Min(now', 10)
             /\ after = IF Len(before) < 10 THEN Append(before, entry)
                        ELSE Append(Tail(before), entry)
             /\ \A i \in DOMAIN after : after[i].timestamp = now' - Len(after) + i - 1]_vars

\* eleven turns have been taken: ten entries are kept, the first is turn 2
C16_Witness ==
    /\ now = 11
    /\ "u1" \in DOMAIN contexts
    /\ Len(contexts["u1"].conversation_history) = 10
    /\ contexts["u1"].conversation_history[1].timestamp = 1
    /\ contexts["u1"].conversation_history[10].timestamp = 10

-----------------------------------------------------------------------------
(* The Planner across restarts: turns, confirmations, clearing, and the    *)
(* construction of a fresh DecisionPlanner over the same data directory    *)

\* DecisionPlanner.__init__ of a new process: the contexts are those that
\* _load_contexts reads from the records
Restart ==
    /\ now < MaxSteps
    /\ contexts' = load_contexts(context_files)
    /\ result' = [op |-> "restart"]
    /\ now' = now + 1
    /\ UNCHANGED <<slots_file, calendar, artifacts, context_files, threads>>

NextRestart ==
    \/ \E t \in ConfirmTurns : HandleIntent("u1", t.intent, t.text, TRUE)
    \/ \E t \in Greetings : HandleIntent("u2", t.intent, t.text, TRUE)
    \/ \E n \in {"book_slot", "clarify_time"}, c \in BOOLEAN : Confirm("u1", n, c)
    \/ \E u \in Users : Clear(u)
    \/ Restart

SpecRestart == Init /\ [][NextRestart]_vars

\* C17: a context reached through process_intent and confirm_action, as
\* persisted, is reloaded by a fresh DecisionPlanner with the same history
\* (same order, at most 10 entries), the same pending actions (order, names,
\* parameters, priority, requires_confirmation), the same current intent and
\* entities; a confirmation after the restart answers as before it.
C17_ContextRoundTrip ==
    [][result'.op = "restart" =>
          /\ DOMAIN contexts' = DOMAIN contexts
          /\ \A u \in DOMAIN contexts :
                /\ contexts'[u].conversation_history = contexts[u].conversation_history
                /\ Len(contexts'[u].conversation_history) <= 10
                /\ contexts'[u].pending_actions = contexts[u].pending_actions
                /\ contexts'[u].current_intent = contexts[u].current_intent
                /\ contexts'[u].entities = contexts[u].entities
                /\ \A n \in ConfirmNames :
                      confirm_action(contexts', context_files', u, n, TRUE).ret
                          = confirm_action(contexts, context_files, u, n, TRUE).ret]_vars

\* a restart has reloaded a context with a history of two turns or more and
\* pending actions both with and without a required confirmation
C17_Witness ==
    /\ result.op = "restart"
    /\ "u1" \in DOMAIN contexts
    /\ Len(contexts["u1"].conversation_history) >= 2
    /\ \E i, j \in DOMAIN contexts["u1"].pending_actions :
          /\ contexts["u1"].pending_actions[i].requires_confirmation
          /\ ~contexts["u1"].pending_actions[j].requires_confirmation

\* C18: after every completed process_intent, confirm_action and
\* clear_user_context the users with a durable record are the users with an
\* in-memory context and each record is the serialized context; after
\* clear_user_context(user) the user has neither, and a restart does not
\* bring the context back.
C18_DurableEqualsMemory ==
    [][result'.op \in {"handle_intent", "confirm_action", "clear_user_context"} =>
          /\ DOMAIN context_files' = DOMAIN contexts'
          /\ \A u \in DOMAIN contexts' : context_files'[u] = context_data(contexts'[u])
          /\ result'.op = "clear_user_context" =>
                /\ result'.user_id \notin DOMAIN contexts'
                /\ result'.user_id \notin DOMAIN context_files'
                /\ result'.user_id \notin DOMAIN load_contexts(context_files')
                /\ result'.ret = (result'.user_id \in DOMAIN contexts)]_vars

\* a user with pending actions has just been cleared while the other user
\* keeps a context
C18_Witness ==
    /\ result.op = "clear_user_context"
    /\ result.ret
    /\ result.user_id \notin DOMAIN contexts
    /\ DOMAIN contexts # {}
    /\ DOMAIN context_files = DOMAIN contexts

-----------------------------------------------------------------------------
(* Requests of one user served by two threads of the server. The Planner   *)
(* takes no lock: the look-up of the context, its creation, the changes    *)
(* made to it, its serialization and the write of its file are separate    *)
(* steps of a request, and the steps of two requests interleave. The       *)
(* changes one request makes to the context object (process_intent lines   *)
(* 58-71, confirm_action lines 257-275) are taken as one step.             *)

\* the requests: two booking turns and the rejection of a pending book_slot
ContextRequests ==
    {[op |-> "process_intent", text |-> <<"book", "09:00", "tomorrow">>,
      intent |-> Intent("book_slot", [time |-> "09:00", date |-> Tomorrow], 80)],
     [op |-> "process_intent", text |-> <<"book", "tomorrow">>,
      intent |-> Intent("book_slot", [date |-> Tomorrow], 80)],
     [op |-> "confirm_action", action_name |-> "book_slot", confirmed |-> FALSE]}

\* what the thread has counted over the requests it completed
Counted(t, field) == IF t \in DOMAIN threads THEN threads[t][field] ELSE 0

\* the context object the thread works on: the one registered for the user,
\* or one that has been replaced in self.contexts and is held by the thread only
Held(t) == IF threads[t].ref = "shared" THEN contexts["u1"] ELSE threads[t].ctx

\* a thread of the server takes a request of user u1
Arrive(t, req) ==
    /\ now < MaxSteps
    /\ Idle(t)
    /\ threads' = Put(threads, t,
                      [pc |-> "lookup", req |-> req, ref |-> "none", ctx |-> NoneObj,
                       data |-> NoneObj,
                       turns |-> Counted(t, "turns"),
                       proposed |-> Counted(t, "proposed"),
                       removed |-> Counted(t, "removed")])
    /\ now' = now + 1
    /\ UNCHANGED <<slots_file, calendar, artifacts, contexts, context_files, result>>

\* _get_or_create_context line 81, confirm_action lines 251-254: is there a
\* context for the user
LookUp(t) ==
    /\ t \in DOMAIN threads
    /\ threads[t].pc = "lookup"
    /\ threads' = Put(threads, t,
           IF "u1" \in DOMAIN contexts
           THEN [threads[t] EXCEPT !.pc = "change", !.ref = "shared"]
           ELSE IF threads[t].req.op = "confirm_action"
           THEN [threads[t] EXCEPT !.pc = "done"]
           ELSE [threads[t] EXCEPT !.pc = "create"])
    /\ UNCHANGED <<slots_file, calendar, artifacts, contexts, context_files, now, result>>

\* _get_or_create_context lines 82-90: a new context is registered for the
\* user; a thread that works on the context registered before keeps that one
CreateContext(t) ==
    /\ t \in DOMAIN threads
    /\ threads[t].pc = "create"
    /\ contexts' = Put(contexts, "u1",
                       ConversationContext("u1", threads[t].req.intent.name,
                                           threads[t].req.intent.entities, <<>>, <<>>, now))
    /\ threads' = [o \in DOMAIN threads |->
                     IF o = t THEN [threads[o] EXCEPT !.pc = "change", !.ref = "shared"]
                     ELSE IF threads[o].ref = "shared"
                     THEN [threads[o] EXCEPT !.ref = "own", !.ctx = contexts["u1"]]
                     ELSE threads[o]]
    /\ UNCHANGED <<slots_file, calendar, artifacts, context_files, now, result>>

\* the context after process_intent lines 58-71 for the request
turn_context(context, clock, req) ==
    updated_context(
        plan(req.intent.name,
             add_to_history(context, clock, req.text, req.intent.name, req.intent.entities),
             req.intent.entities, req.intent.confidence),
        clock, req.intent.name, req.intent.entities)

\* the context after confirm_action lines 257-275 for the request, the
\* context itself when no pending action matches
answered_context(context, req, found) ==
    IF found = 0 THEN context
    ELSE IF req.confirmed
    THEN [context EXCEPT !.pending_actions =
             other_names(remove_at(context.pending_actions, found), req.action_name)]
    ELSE [context EXCEPT !.pending_actions = remove_at(context.pending_actions, found)]

\* the thread record after the change: a confirmation that found nothing
\* returns without saving
changed_thread(th, before, after) ==
    [th EXCEPT
        !.pc = IF th.req.op = "confirm_action" /\ after = before THEN "done"
               ELSE "serialize",
        !.ctx = IF th.ref = "own" THEN after ELSE th.ctx,
        !.proposed = IF Len(after.pending_actions) > Len(before.pending_actions)
                     THEN @ + Len(after.pending_actions) - Len(before.pending_actions)
                     ELSE @,
        !.removed = IF Len(after.pending_actions) < Len(before.pending_actions)
                    THEN @ + Len(before.pending_actions) - Len(after.pending_actions)
                    ELSE @]

\* the request changes the context object it holds
ChangeContext(t) ==
    /\ t \in DOMAIN threads
    /\ threads[t].pc = "change"
    /\ LET th == threads[t]
           after == IF th.req.op = "process_intent"
                    THEN turn_context(Held(t), now, th.req)
                    ELSE answered_context(Held(t), th.req,
                             find_action_from(Held(t).pending_actions,
                                              th.req.action_name, 1))
       IN /\ contexts' = IF th.ref = "shared" THEN Put(contexts, "u1", after)
                         ELSE contexts
          /\ threads' = Put(threads, t, changed_thread(th, Held(t), after))
    /\ UNCHANGED <<slots_file, calendar, artifacts, context_files, now, result>>

\* _save_context lines 286-301: the record is built from the context object
SerializeContext(t) ==
    /\ t \in DOMAIN threads
    /\ threads[t].pc = "serialize"
    /\ threads' = Put(threads, t,
                      [threads[t] EXCEPT !.pc = "write", !.data = context_data(Held(t))])
    /\ UNCHANGED <<slots_file, calendar, artifacts, contexts, context_files, now, result>>

\* _save_context lines 303-304: the record is written; the request returns
WriteContext(t) ==
    /\ t \in DOMAIN threads
    /\ threads[t].pc = "write"
    /\ context_files' = Put(context_files, "u1", threads[t].data)
    /\ threads' = Put(threads, t,
                      [threads[t] EXCEPT
                          !.pc = "done", !.data = NoneObj,
                          !.turns = IF threads[t].req.op = "process_intent"
                                    THEN @ + 1 ELSE @])
    /\ UNCHANGED <<slots_file, calendar, artifacts, contexts, now, result>>

NextShared ==
    \/ \E t \in Threads, req \in ContextRequests : Arrive(t, req)
    \/ \E t \in Threads : LookUp(t)
    \/ \E t \in Threads : CreateContext(t)
    \/ \E t \in Threads : ChangeContext(t)
    \/ \E t \in Threads : SerializeContext(t)
    \/ \E t \in Threads : WriteContext(t)

SpecShared == Init /\ [][NextShared]_vars

\* C19: requests of one user that run concurrently leave what some serial
\* order leaves: once every request has returned, the history holds an entry
\* for every completed turn (the last 10), the pending actions are those
\* proposed less those removed, and the durable record is the serialized
\* in-memory context.
C19_PerUserAtomicity ==
    (/\ "u1" \in DOMAIN contexts
     /\ \A t \in DOMAIN threads : threads[t].pc = "done") =>
        /\ "u1" \in DOMAIN context_files
        /\ context_files["u1"] = context_data(contexts["u1"])
        /\ Len(contexts["u1"].conversation_history)
              = Min(Counted("t1", "turns") + Counted("t2", "turns"), 10)
        /\ Len(contexts["u1"].pending_actions)
              = Counted("t1", "proposed") + Counted("t2", "proposed")
                  - Counted("t1", "removed") - Counted("t2", "removed")

-----------------------------------------------------------------------------
(* Booking requests with every combination of entities *)

\* entities of a booking request: time and date present, absent or None,
\* next to an entity the booking rule does not read
BookingEntities ==
    {[time |-> "09:00", date |-> Tomorrow],
     [time |-> "14:00"],
     [time |-> "14:00", date |-> None],
     [date |-> Tomorrow],
     [time |-> None, date |-> Today],
     [person |-> "anna"],
     EmptyDict}

NextBooking ==
    \E e \in BookingEntities :
        HandleIntent("u1", Intent("book_slot", e, 80), <<"book">>, TRUE)

SpecBooking == Init /\ [][NextBooking]_vars

\* C20: the booking rule of the Planner proposes exactly one action, which
\* requires confirmation: clarify_time{missing time} when neither time nor
\* date is given, clarify_time carrying the date when only the date is
\* given, book_slot{time, today} when only the time is given, and
\* book_slot{time, date} when both are given.
C20_BookingPolicy ==
    [][(result'.op = "handle_intent" /\ result'.ret.intent = "book_slot") =>
          LET time == Get(result'.ret.entities, "time")
              date == Get(result'.ret.entities, "date")
              actions == result'.ret.actions
          IN /\ Len(actions) = 1
             /\ actions[1].requires_confirmation
             /\ result'.ret.execution_results = <<>>
             /\ actions[1].name = IF Truthy(time) THEN "book_slot" ELSE "clarify_time"
             /\ actions[1].parameters
                   = IF Truthy(time) /\ Truthy(date) THEN [time |-> time, date |-> date]
                     ELSE IF Truthy(time) THEN [time |-> time, date |-> Today]
                     ELSE IF Truthy(date) THEN [missing |-> "time", date |-> date]
                     ELSE [missing |-> "time"]]_vars

\* all four answers of the rule are pending for the user: a clarify_time
\* without and with a date, a book_slot for today and one for a given date
C20_Witness ==
    /\ result.op = "handle_intent"
    /\ "u1" \in DOMAIN contexts
    /\ \E i, j, k, l \in DOMAIN contexts["u1"].pending_actions :
          /\ contexts["u1"].pending_actions[i].parameters = [missing |-> "time"]
          /\ contexts["u1"].pending_actions[j].parameters
                = [missing |-> "time", date |-> Tomorrow]
          /\ contexts["u1"].pending_actions[k].parameters
                = [time |-> "14:00", date |-> Today]
          /\ contexts["u1"].pending_actions[l].parameters
                = [time |-> "09:00", date |-> Tomorrow]

\* ---------------------------------------------------------------------
\* Cancellation policy (DecisionPlanner._plan_cancellation)
\* ---------------------------------------------------------------------

CancelEntities ==
    {[time |-> "11:00", date |-> Tomorrow],
     [time |-> "11:00"],
     [time |-> "11:00", date |-> None],
     [date |-> Tomorrow],
     [time |-> None, date |-> Today],
     [time |-> None, date |-> None],
     [person |-> "anna"],
     EmptyDict}

NextCancel ==
    \E e \in CancelEntities :
        HandleIntent("u1", Intent("cancel_slot", e, 80), <<"cancel">>, TRUE)

SpecCancel == Init /\ [][NextCancel]_vars

\* C21: the cancellation rule of the Planner proposes exactly one action,
\* which requires confirmation: a clarify_cancellation when neither time nor
\* date is given, otherwise a cancel_slot whose date is the given date, or
\* today when the date is absent; a cancel_slot is never proposed when the
\* user supplied neither a time nor a date.
C21_CancellationPolicy ==
    [][(result'.op = "handle_intent" /\ result'.ret.intent = "cancel_slot") =>
          LET time == Get(result'.ret.entities, "time")
              date == Get(result'.ret.entities, "date")
              actions == result'.ret.actions
          IN /\ Len(actions) = 1
             /\ actions[1].requires_confirmation
             /\ result'.ret.execution_results = <<>>
             /\ calendar' = calendar
             /\ IF ~Truthy(time) /\ ~Truthy(date)
                THEN /\ actions[1].name = "clarify_cancellation"
                     /\ \A i \in 1..Len(actions) : actions[i].name # "cancel_slot"
                ELSE /\ actions[1].name = "cancel_slot"
                     /\ actions[1].parameters.time = time
                     /\ actions[1].parameters.date
                           = IF Truthy(date) THEN date ELSE Today]_vars

\* a cancel_slot dated today was proposed for a time given without a date,
\* after a request with neither had been answered by a clarification
C21_Witness ==
    /\ result.op = "handle_intent"
    /\ result.ret.intent = "cancel_slot"
    /\ ~Truthy(Get(result.ret.entities, "date"))
    /\ result.ret.actions[1].name = "cancel_slot"
    /\ result.ret.actions[1].parameters.date = Today
    /\ \E i \in 1..Len(contexts["u1"].pending_actions) :
          contexts["u1"].pending_actions[i].name = "clarify_cancellation"

\* C22: after an utterance has been handled, no action that was proposed
\* without requiring confirmation and was executed by the pipeline is still
\* in the user's pending_actions.
C22_ExecutedNotPending ==
    result.op = "handle_intent" =>
        LET actions == result.ret.actions
            pending == contexts[result.user_id].pending_actions
        IN \A i \in 1..Len(actions) :
              (/\ ~actions[i].requires_confirmation
               /\ \E k \in 1..Len(result.ret.execution_results) :
                     result.ret.execution_results[k].action = actions[i].name)
              => \A j \in 1..Len(pending) :
                    ~(/\ pending[j].name = actions[i].name
                      /\ pending[j].parameters = actions[i].parameters)

\* ---------------------------------------------------------------------
\* System control (ActionExecutor._execute_system_control)
\* ---------------------------------------------------------------------

ControlParams ==
    {[command |-> "shutdown"], [command |-> "Restart"], [command |-> "sleep"],
     [command |-> "Hibernate"], [command |-> "SHUTDOWN"], [command |-> "system"],
     [command |-> "format"], [command |-> None], [target |-> "shutdown"], EmptyDict}

NextControl ==
    \/ \E p \in ControlParams : \E ok \in BOOLEAN : Execute("system_control", p, ok)
    \/ Execute("book_slot", [time |-> "10:00", date |-> Tomorrow], TRUE)
    \/ Execute("system_open", [command |-> "calculator"], TRUE)
    \/ HandleIntent("u1", Intent("system_action", EmptyDict, 80), <<"shutdown">>, TRUE)
    \/ Confirm("u1", "system_control", TRUE)
    \/ ExecuteConfirmed(TRUE)

SpecControl == Init /\ [][NextControl]_vars

\* C23: system_control with a recognised command (shutdown, restart, sleep,
\* hibernate, in any letter case) returns success=true with the refusal
\* message, and no execution of system_control, whatever its parameters,
\* makes a call to the operating system or changes the calendar, the
\* artifacts, the slot configuration or any context.
C23_SystemControlRefuses ==
    [][(result'.op = "execute_action" /\ result'.action_name = "system_control") =>
          LET command == GetOr(result'.parameters, "command", "")
          IN /\ result'.os_calls = <<>>
             /\ calendar' = calendar
             /\ artifacts' = artifacts
             /\ slots_file' = slots_file
             /\ contexts' = contexts
             /\ context_files' = context_files
             /\ \A c \in {"shutdown", "restart", "sleep", "hibernate"} :
                   (command # None /\ Lower(command) = c) =>
                      /\ result'.ret.success = TRUE
                      /\ result'.ret.message
                            = "For safety, I can't execute " \o c \o ". "
                              \o system_commands[c]]_vars

\* a command in capitals was refused while a booking and a context exist
C23_Witness ==
    /\ result.op = "execute_action"
    /\ result.action_name = "system_control"
    /\ result.parameters = [command |-> "SHUTDOWN"]
    /\ result.ret.success
    /\ calendar # EmptyDict
    /\ "u1" \in DOMAIN contexts

\* ---------------------------------------------------------------------
\* Unknown action names (ActionExecutor.execute_action)
\* ---------------------------------------------------------------------

\* the names the Planner uses for its clarifications, and its intent names
PlaceholderNames ==
    {"clarify_time", "clarify_cancellation", "clarify_query", "clarify_system",
     "clarify_intent", "query_slots", "greet", ""}

NextDispatch ==
    \/ \E n \in PlaceholderNames :
          \E p \in {EmptyDict, [missing |-> "time"], [time |-> "10:00", date |-> Tomorrow]} :
             Execute(n, p, TRUE)
    \/ Execute("book_slot", [time |-> "10:00", date |-> Tomorrow], TRUE)
    \/ HandleIntent("u1", Intent("book_slot", EmptyDict, 80), <<"book">>, TRUE)
    \/ Confirm("u1", "clarify_time", TRUE)
    \/ ExecuteConfirmed(TRUE)

SpecDispatch == Init /\ [][NextDispatch]_vars

\* C24: execute_action with a name that is not a key of the dispatch table
\* returns success=false with the message "Unknown action: <name>", raises
\* nothing, and leaves the calendar, the artifacts and the contexts unchanged.
C24_UnknownActionFails ==
    [][(/\ result'.op = "execute_action"
        /\ result'.action_name \notin
              {"book_slot", "cancel_slot", "query_available_slots",
               "query_user_bookings", "system_open", "system_control",
               "create_ics", "send_notification"}) =>
          /\ "raised" \notin DOMAIN result'.ret
          /\ result'.ret.success = FALSE
          /\ result'.ret.message = "Unknown action: " \o result'.action_name
          /\ result'.os_calls = <<>>
          /\ calendar' = calendar
          /\ artifacts' = artifacts
          /\ contexts' = contexts
          /\ context_files' = context_files]_vars

\* the Planner's clarify_time, confirmed by the user, was handed to the
\* Executor and refused while a booking exists
C24_Witness ==
    /\ result.op = "execute_action"
    /\ result.action_name = "clarify_time"
    /\ result.parameters = [missing |-> "time"]
    /\ ~result.ret.success
    /\ calendar # EmptyDict

\* ---------------------------------------------------------------------
\* Queries (ActionExecutor._execute_query_available, _execute_query_bookings)
\* ---------------------------------------------------------------------

QueryParams ==
    {[date |-> Today], [date |-> Tomorrow], [date |-> "someday"], [date |-> None],
     EmptyDict}

NextQuery ==
    \/ \E n \in {"query_available_slots", "query_user_bookings"}, p \in QueryParams :
          Execute(n, p, TRUE)
    \/ \E t \in {"10:00", "10:30"} : BookSpecific(Tomorrow, t)
    \/ \E n \in {"book_slot", "cancel_slot"} :
          Execute(n, [time |-> "11:00", date |-> Today], TRUE)
    \/ HandleIntent("u1", Intent("query_slots", [date |-> Tomorrow, kind |-> "free"], 80),
                    <<"free", "tomorrow">>, TRUE)

SpecQuery == Init /\ [][NextQuery]_vars

\* the slots of the Executor's grid that no booking of the date holds
FreeOnGrid(cfg, cal, date) ==
    SelectSeq(generate_time_slots(cfg), LAMBDA s : TimesBooked(cal, date, s) = 0)

\* C25: query_available_slots and query_user_bookings always return
\* success=true with the queried list, which may be empty (the free slots of
\* the date, or the bookings of the date), and leave the calendar, the slot
\* configuration, the artifacts and all contexts unchanged.
C25_QueriesReadOnly ==
    [][(/\ result'.op = "execute_action"
        /\ result'.action_name \in {"query_available_slots", "query_user_bookings"}) =>
          LET date == IF "date" \in DOMAIN result'.parameters
                      THEN result'.parameters.date ELSE Today
          IN /\ "raised" \notin DOMAIN result'.ret
             /\ result'.ret.success = TRUE
             /\ result'.ret.data.date = date
             /\ IF result'.action_name = "query_available_slots"
                THEN result'.ret.data.available_slots
                        = FreeOnGrid(slots_file, calendar, date)
                ELSE result'.ret.data.bookings
                        = (IF date \in DOMAIN calendar THEN calendar[date] ELSE <<>>)
             /\ result'.os_calls = <<>>
             /\ calendar' = calendar
             /\ slots_file' = slots_file
             /\ artifacts' = artifacts
             /\ contexts' = contexts
             /\ context_files' = context_files]_vars

\* the free slots of a date were queried while the date holds a booking and
\* a context exists: the booked slot is not in the list
C25_Witness ==
    /\ result.op = "execute_action"
    /\ result.action_name = "query_available_slots"
    /\ result.parameters = [date |-> Tomorrow]
    /\ TimesBooked(calendar, Tomorrow, "10:30") = 1
    /\ ~InList("10:30", result.ret.data.available_slots)
    /\ InList("10:00", result.ret.data.available_slots)
    /\ "u1" \in DOMAIN contexts

\* C26: an utterance that matches no intent keyword but contains a time or a
\* date yields the intent "unknown" carrying the extracted time and date.
C26_UnknownCarriesEntities ==
    (result.op = "process" /\ result.ret.intent = "unknown") =>
        /\ Truthy(extract_time_from_text(result.text)) =>
              Get(result.ret.entities, "time") = extract_time_from_text(result.text)
        /\ Truthy(extract_date_from_text(result.text)) =>
              Get(result.ret.entities, "date") = extract_date_from_text(result.text)

\* ---------------------------------------------------------------------
\* Intent detection by rules (EnhancedNLU._parse_with_rules)
\* ---------------------------------------------------------------------

\* nlu.parse_intent(text) on its own
Parse(text, use_spacy) ==
    /\ now < MaxSteps
    /\ result' = [op |-> "parse_intent", text |-> text, use_spacy |-> use_spacy,
                  ret |-> parse_intent(text, use_spacy, EmptyDict)]
    /\ now' = now + 1
    /\ UNCHANGED <<slots_file, calendar, artifacts, contexts, context_files, threads>>

RuleTexts ==
    {<<"book", "a", "slot">>,
     <<"cancel", "my", "booking">>,
     <<"CANCEL", "11:00", "tomorrow">>,
     <<"this", "is", "it">>,
     <<"Hello">>,
     <<"good", "morning">>,
     <<"show", "bookings">>,
     <<"what", "is", "free", "today">>,
     <<"restart">>,
     <<"11:00">>,
     <<"thanks">>}

NextRules ==
    \/ \E text \in RuleTexts : Parse(text, FALSE)
    \/ \E text \in {<<"Hello">>, <<"book", "a", "slot">>, <<"11:00">>} :
          Process("u1", text, FALSE, TRUE)

SpecRules == Init /\ [][NextRules]_vars

\* intent i of the declaration order has a keyword contained in the text
KeywordMatch(text, i) ==
    \E kw \in intent_keywords[intent_order[i]] : KeywordInText(LowerText(text), kw)

\* C27: by the rule strategy the returned intent is the earliest declared
\* intent (book, cancel, greet, query, system) with a keyword contained in the
\* lower-cased text; it is "unknown" with confidence 0.0 exactly when no
\* keyword of any intent matches; the confidence is within [0, 1].
C27_EarliestDeclaredIntent ==
    (result.op = "parse_intent" /\ ~result.use_spacy) =>
        /\ \A i \in DOMAIN intent_order :
              (KeywordMatch(result.text, i)
                  /\ \A j \in 1 .. (i - 1) : ~KeywordMatch(result.text, j))
              => result.ret.name = intent_order[i]
        /\ (result.ret.name = "unknown" /\ result.ret.confidence = 0)
              <=> (\A i \in DOMAIN intent_order : ~KeywordMatch(result.text, i))
        /\ result.ret.confidence \in 0 .. 100

\* "cancel my booking" holds a keyword of book ("book" in "booking") and one
\* of cancel: the earlier declared book is returned
C27_Witness ==
    /\ result.op = "parse_intent"
    /\ result.text = <<"cancel", "my", "booking">>
    /\ KeywordMatch(result.text, 1)
    /\ KeywordMatch(result.text, 2)
    /\ result.ret.name = "book"
    /\ result.ret.confidence = 80

\* ---------------------------------------------------------------------
\* Time normalization (EnhancedNLU._normalize_time)
\* ---------------------------------------------------------------------

\* a clock time as a time pattern matches it: "<h>:<mm>", "<h>:<mm>am",
\* "<h>:<mm>pm" (colon), "<h>am", "<h>pm" and "<h>" (no colon)
TimeTexts ==
    {[hour |-> h, minute |-> m, colon |-> TRUE, marker |-> k] :
        h \in 1 .. 12, m \in 0 .. 59, k \in {"am", "pm", ""}}
    \cup {[hour |-> h, minute |-> 0, colon |-> FALSE, marker |-> k] :
             h \in 1 .. 12, k \in {"am", "pm", ""}}

\* EnhancedNLU._normalize_time on the parts of the matched text: the "pm"
\* branch is taken only for a text without a colon, then the "HH:MM" search,
\* then the search for a bare hour
normalize_time_text(t) ==
    IF t.marker = "pm" /\ ~t.colon
    THEN ClockText(IF t.hour < 12 THEN t.hour + 12 ELSE t.hour, 0)
    ELSE IF t.colon THEN ClockText(t.hour, t.minute)
    ELSE ClockText(t.hour, 0)

\* the matched texts a request can hold
InitClock ==
    /\ slots_file = ExecutorDefaultSlots
    /\ calendar = EmptyDict
    /\ artifacts = {}
    /\ contexts = EmptyDict
    /\ context_files = EmptyDict
    /\ now = 0
    /\ result \in {[op |-> "time_text", text |-> t] : t \in TimeTexts}
    /\ threads = EmptyDict

\* nlu._normalize_time(match.group())
NormalizeTime ==
    /\ now < MaxSteps
    /\ result.op = "time_text"
    /\ result' = [op |-> "normalize_time", text |-> result.text,
                  ret |-> normalize_time_text(result.text)]
    /\ now' = now + 1
    /\ UNCHANGED <<slots_file, calendar, artifacts, contexts, context_files, threads>>

SpecClock == InitClock /\ [][NormalizeTime]_vars

\* the hour of the 24-hour clock
Hour24(hour, marker) ==
    IF marker = "pm" /\ hour < 12 THEN hour + 12
    ELSE IF marker = "am" /\ hour = 12 THEN 0
    ELSE hour

\* C28: for every hour 1..12, minute 00..59 and marker, with or without a
\* minutes part, the normalized time is the zero-padded 24-hour "HH:MM" of
\* the clock time (pm with h < 12 gives h + 12, 12am gives 00); without a
\* marker the hour is kept.
C28_TwentyFourHourClock ==
    result.op = "normalize_time" =>
        result.ret = ClockText(Hour24(result.text.hour, result.text.marker),
                               result.text.minute)

\* ---------------------------------------------------------------------
\* Damaged durable files (storage.py _read_json, executor.py _load_bookings)
\* ---------------------------------------------------------------------

\* get_bookings(): GET /bookings?date=...
GetBookings(date_str) ==
    /\ now < MaxSteps
    /\ result' = [op |-> "get_bookings", date |-> date_str,
                  ret |-> get_bookings(read_json(calendar), date_str)]
    /\ now' = now + 1
    /\ UNCHANGED <<slots_file, calendar, artifacts, contexts, context_files, threads>>

\* the data directory as the components find it: each file sound, failing to
\* parse, or holding a list
InitDamaged ==
    /\ slots_file \in {ExecutorDefaultSlots, Unreadable, NotAnObject}
    /\ calendar \in {EmptyDict, Unreadable, NotAnObject}
    /\ slots_file # ExecutorDefaultSlots \/ calendar # EmptyDict
    /\ artifacts = {}
    /\ contexts = EmptyDict
    /\ context_files = EmptyDict
    /\ now = 0
    /\ result = [op |-> "init"]
    /\ threads = EmptyDict

DamagedParams ==
    {[time |-> "09:00", date |-> Tomorrow], [date |-> Tomorrow], [time |-> "09:00"]}

NextDamaged ==
    \/ BookSpecific(Tomorrow, "10:00")
    \/ BookFirstAvailable(Tomorrow)
    \/ GetSlots(Tomorrow)
    \/ GetBookings(Tomorrow)
    \/ \E n \in {"book_slot", "cancel_slot", "query_available_slots",
                 "query_user_bookings"}, p \in DamagedParams : Execute(n, p, TRUE)

SpecDamaged == InitDamaged /\ [][NextDamaged]_vars

Damaged(file) == file = Unreadable \/ file = NotAnObject

\* the file's content, or the empty object in place of a damaged file
Sound(file) == IF Damaged(file) THEN EmptyDict ELSE file

\* C29: with a damaged bookings or slots file, every availability, query,
\* booking and cancellation operation of the Slot Store and of the Executor
\* returns what it returns on an empty calendar and the default slot
\* configuration, and raises nothing.
C29_DamagedStoreIsEmptyDefault ==
    [][(Damaged(calendar) \/ Damaged(slots_file)) =>
          CASE result'.op = "execute_action" ->
                  /\ "raised" \notin DOMAIN result'.ret
                  /\ result'.ret
                        = execute_action(Sound(slots_file), Sound(calendar), artifacts, now,
                                         result'.action_name, result'.parameters, TRUE).ret
            [] result'.op = "book_specific_slot" ->
                  result'.ret = book_specific_slot(Sound(slots_file), Sound(calendar),
                                                   result'.date, result'.time).ret
            [] result'.op = "book_first_available" ->
                  result'.ret = book_first_available(Sound(slots_file), Sound(calendar),
                                                     result'.date).ret
            [] result'.op = "get_slots" ->
                  result'.ret = get_available_slots(Sound(slots_file), Sound(calendar),
                                                    result'.date)
            [] result'.op = "get_bookings" ->
                  result'.ret = get_bookings(Sound(calendar), result'.date)
            [] OTHER -> TRUE]_vars

\* ---------------------------------------------------------------------
\* Slot filling over two turns (DecisionPlanner._plan_booking, _plan_fallback)
\* ---------------------------------------------------------------------

FillingTimes == {"11:00", "14:00"}

NextFilling ==
    \/ HandleIntent("u1", Intent("book_slot", EmptyDict, 80), <<"book", "a", "slot">>, TRUE)
    \/ HandleIntent("u1", Intent("book_slot", [time |-> "14:00"], 80),
                    <<"book", "14:00">>, TRUE)
    \/ \E t \in FillingTimes :
          HandleIntent("u1", Intent("unknown", [time |-> t], 0), <<t>>, TRUE)
    \/ HandleIntent("u1", Intent("unknown", [date |-> Tomorrow], 0), <<"tomorrow">>, TRUE)
    \/ \E c \in BOOLEAN : Confirm("u1", "book_slot", c)
    \/ ExecuteConfirmed(TRUE)

SpecFilling == Init /\ [][NextFilling]_vars

\* C30: when the turn after a booking request without entities is an
\* unresolved turn that supplies a time t, the user's pending_actions then
\* hold a book_slot action with time t that requires confirmation (the one
\* confirm_action(user, "book_slot", true) returns for execution).
C30_SlotFillingYieldsBooking ==
    [][(/\ result.op = "handle_intent"
        /\ result.ret.intent = "book_slot"
        /\ result.ret.entities = EmptyDict
        /\ result'.op = "handle_intent"
        /\ result'.ret.intent = "unknown"
        /\ Truthy(Get(result'.ret.entities, "time"))) =>
          \E i \in 1 .. Len(contexts'["u1"].pending_actions) :
             LET a == contexts'["u1"].pending_actions[i]
             IN /\ a.name = "book_slot"
                /\ a.requires_confirmation
                /\ Get(a.parameters, "time") = result'.ret.entities.time]_vars

\* C31: a follow-up turn with unresolved intent never writes a time or a date
\* into a pending action whose name is not book_slot: every pending action of
\* another name is the same after the turn as before it.
C31_MergeOnlyIntoBooking ==
    [][(/\ result'.op = "handle_intent"
        /\ result'.ret.intent = "unknown"
        /\ "u1" \in DOMAIN contexts) =>
          \A i \in 1 .. Len(contexts["u1"].pending_actions) :
             contexts["u1"].pending_actions[i].name # "book_slot" =>
                contexts'["u1"].pending_actions[i] = contexts["u1"].pending_actions[i]]_vars

\* C32: when an unresolved turn has merged a time into the pending action at
\* the head of the list, the next unresolved turn, which supplies a date, is
\* merged into the same action: no pending action is added, and the action
\* then holds the time of the first and the date of the second turn.
C32_SecondFollowUpMerges ==
    [][(/\ result.op = "handle_intent"
        /\ result.ret.intent = "unknown"
        /\ Truthy(Get(result.ret.entities, "time"))
        /\ result.ret.actions = <<>>
        /\ result'.op = "handle_intent"
        /\ result'.ret.intent = "unknown"
        /\ Truthy(Get(result'.ret.entities, "date"))) =>
          /\ Len(contexts'["u1"].pending_actions) = Len(contexts["u1"].pending_actions)
          /\ Get(contexts'["u1"].pending_actions[1].parameters, "time")
                = result.ret.entities.time
          /\ Get(contexts'["u1"].pending_actions[1].parameters, "date")
                = result'.ret.entities.date]_vars

\* the action names each intent-specific planning rule can propose
RuleActions ==
    [book |-> {"book_slot", "clarify_time"},
     cancel |-> {"cancel_slot", "clarify_cancellation"},
     query |-> {"query_available_slots", "query_user_bookings", "clarify_query"},
     system |-> {"system_open", "system_control", "clarify_system"}]

\* C33: every label the Intent Extractor emits is planned by its own rule:
\* for book, cancel, query and system exactly one action of that rule is
\* proposed, for greet none, and the fallback's clarify_intent is proposed
\* only for the label "unknown".
C33_LabelsReachTheirRule ==
    result.op = "process" =>
        LET actions == result.ret.actions
        IN /\ result.ret.intent \in DOMAIN RuleActions =>
                 /\ Len(actions) = 1
                 /\ actions[1].name \in RuleActions[result.ret.intent]
           /\ result.ret.intent = "greet" => actions = <<>>
           /\ result.ret.intent # "unknown" =>
                 \A i \in 1 .. Len(actions) : actions[i].name # "clarify_intent"

\* C34: no update of the calendar is lost: while a thread holds the success
\* it returned for a booking, and nothing has cancelled it, the calendar
\* holds a booking of that date and time.
C34_NoLostBooking ==
    \A t \in DOMAIN threads :
        (threads[t].pc = "done" /\ threads[t].ret # NoneObj /\ threads[t].ret.success) =>
            TimesBooked(calendar, threads[t].date, Strip(threads[t].time)) >= 1

\* C35: for the slot configuration and the calendar as they are, the
\* Executor's _get_available_slots and the Slot Store's get_available_slots
\* return the same ordered list for every date.
C35_SharedAvailability ==
    \A d \in {Today, Tomorrow} :
        executor_get_available_slots(load_slots_config(slots_file),
                                     load_bookings(calendar), d)
            = get_available_slots(read_json(slots_file), read_json(calendar), d)

\* ---------------------------------------------------------------------
\* The Executor's slot grid (ActionExecutor._generate_time_slots)
\* ---------------------------------------------------------------------

\* slot configurations with the keys the Executor reads
TimeGridConfigs ==
    {[start_time |-> s, end_time |-> e, slot_duration |-> d] :
        s \in {"09:00", "09:15"}, e \in {"10:30", "12:00"}, d \in {20, 30, 45, 60, 90}}

InitTimeGrid ==
    /\ slots_file \in TimeGridConfigs
    /\ calendar = EmptyDict
    /\ artifacts = {}
    /\ contexts = EmptyDict
    /\ context_files = EmptyDict
    /\ now = 0
    /\ result = [op |-> "init"]
    /\ threads = EmptyDict

NextTimeGrid ==
    \/ \E d \in {Today, Tomorrow} : Execute("query_available_slots", [date |-> d], TRUE)
    \/ Execute("book_slot", [time |-> "10:00", date |-> Tomorrow], TRUE)

SpecTimeGrid == InitTimeGrid /\ [][NextTimeGrid]_vars

\* the number of times start + k*d, k = 0, 1, ..., that lie before the end
StepsBefore(start, end, d) == IF end <= start THEN 0 ELSE ((end - start - 1) \div d) + 1

\* the times start + k*d before the end, in increasing order
EvenGrid(start, end, d) ==
    [k \in 1 .. StepsBefore(start, end, d) |->
        ClockText((start + (k - 1) * d) \div 60, (start + (k - 1) * d) % 60)]

\* C36: for a configuration (start_time, end_time, slot_duration d > 0) and a
\* date without bookings, the Executor's grid is exactly the times
\* start + k*d, k = 0, 1, 2, ..., strictly before end_time, in increasing
\* order, also for d that does not divide 60 and for d greater than 60.
C36_EvenlySpacedGrid ==
    (/\ result.op = "execute_action"
     /\ result.action_name = "query_available_slots"
     /\ get_bookings(calendar, result.parameters.date) = <<>>
     /\ slots_file.slot_duration > 0) =>
        result.ret.data.available_slots
            = EvenGrid(MinuteOfDay(slots_file.start_time),
                       MinuteOfDay(slots_file.end_time), slots_file.slot_duration)

\* ---------------------------------------------------------------------
\* The loop of ActionExecutor._generate_time_slots, one iteration per step
\* ---------------------------------------------------------------------

\* iterations followed per call
MaxGrid == 4

\* slot configurations with a step of 0 and an end at or before the start
LoopConfigs ==
    {[start_time |-> s, end_time |-> e, slot_duration |-> d] :
        s \in {"09:00", "09:30"}, e \in {"08:00", "09:00", "10:00"}, d \in {0, 20, 30}}

InitTimeLoop ==
    /\ slots_file \in LoopConfigs
    /\ calendar = EmptyDict
    /\ artifacts = {}
    /\ contexts = EmptyDict
    /\ context_files = EmptyDict
    /\ now = 0
    /\ result = [op |-> "init"]
    /\ threads = EmptyDict

\* the loop condition of _generate_time_slots
InsideDay(current_hour, current_min, end_hour, end_min) ==
    current_hour < end_hour \/ (current_hour = end_hour /\ current_min < end_min)

\* a handler calls _generate_time_slots: the configuration is read and the
\* cursor is put on start_time
GenerateCall(action_name, date) ==
    /\ now < MaxSteps
    /\ IF "call" \in DOMAIN threads THEN threads["call"].pc = "done" ELSE TRUE
    /\ LET config == load_slots_config(slots_file)
           start == ParseClock(GetOr(config, "start_time", "09:00"))
           end == ParseClock(GetOr(config, "end_time", "17:00"))
       IN threads' = Put(threads, "call",
                         [pc |-> "loop", action_name |-> action_name, date |-> date,
                          slot_duration |-> GetOr(config, "slot_duration", 30),
                          end_hour |-> end[1], end_min |-> end[2],
                          current_hour |-> start[1], current_min |-> start[2],
                          slots |-> <<>>])
    /\ now' = now + 1
    /\ result' = [op |-> "generate_time_slots", action_name |-> action_name]
    /\ UNCHANGED <<slots_file, calendar, artifacts, contexts, context_files>>

\* one iteration of the while loop
GenerateStep ==
    /\ "call" \in DOMAIN threads
    /\ LET f == threads["call"]
       IN /\ f.pc = "loop"
          /\ InsideDay(f.current_hour, f.current_min, f.end_hour, f.end_min)
          /\ Len(f.slots) < MaxGrid
          /\ threads' = Put(threads, "call",
                 [f EXCEPT !.slots = Append(f.slots, ClockText(f.current_hour, f.current_min)),
                           !.current_min = IF f.current_min + f.slot_duration >= 60
                                           THEN 0 ELSE f.current_min + f.slot_duration,
                           !.current_hour = IF f.current_min + f.slot_duration >= 60
                                            THEN f.current_hour + 1 ELSE f.current_hour])
    /\ UNCHANGED <<slots_file, calendar, artifacts, contexts, context_files, now, result>>

\* the loop condition is false: the slots are returned to the handler
GenerateReturn ==
    /\ "call" \in DOMAIN threads
    /\ LET f == threads["call"]
       IN /\ f.pc = "loop"
          /\ ~InsideDay(f.current_hour, f.current_min, f.end_hour, f.end_min)
          /\ threads' = Put(threads, "call", [f EXCEPT !.pc = "done"])
          /\ result' = [op |-> "generate_time_slots", action_name |-> f.action_name,
                        ret |-> f.slots]
    /\ UNCHANGED <<slots_file, calendar, artifacts, contexts, context_files, now>>

NextTimeLoop ==
    \/ \E a \in {"query_available_slots", "book_slot"}, d \in {Today, Tomorrow} : GenerateCall(a, d)
    \/ GenerateStep
    \/ GenerateReturn

SpecTimeLoop == InitTimeLoop /\ [][NextTimeLoop]_vars

\* minutes between the cursor of a call and its end_time
MinutesLeft(f) == (f.end_hour * 60 + f.end_min) - (f.current_hour * 60 + f.current_min)

\* C37: slot-grid generation terminates for every slot configuration, also
\* for a step of 0 and an end_time at or before start_time: the loop ends
\* when no minutes are left before end_time, and every iteration leaves
\* strictly fewer minutes than it found.
C37_GridLoopTerminates ==
    [][("call" \in DOMAIN threads /\ "call" \in DOMAIN threads'
        /\ threads["call"].pc = "loop" /\ threads'["call"].pc = "loop"
        /\ threads'["call"].slots # threads["call"].slots)
       => MinutesLeft(threads'["call"]) < MinutesLeft(threads["call"])]_vars

-----------------------------------------------------------------------------
(* Booking and cancelling through the Executor *)

\* the available slots of a date as the Executor and as the Slot Store
\* compute them from the two files
Availability(cal_file, d) ==
    <<executor_get_available_slots(load_slots_config(slots_file), load_bookings(cal_file), d),
      get_available_slots(read_json(slots_file), read_json(cal_file), d)>>

\* C38: booking and cancelling are inverse on availability: when
\* book_slot(date, t) has succeeded on a free grid time and cancel_slot(date, t)
\* then succeeds, the available slots of every date are those before the
\* booking, and a further book_slot(date, t) succeeds.
C38_BookCancelInverse ==
    [][(/\ result'.op = "execute_action"
        /\ result'.action_name = "book_slot"
        /\ result'.ret.success)
       => LET p == [time |-> result'.ret.data.time, date |-> result'.ret.data.date]
              cancelled == execute_on_files(slots_file, calendar', artifacts', now',
                                            "cancel_slot", p, TRUE)
              again == execute_on_files(slots_file, cancelled.calendar, cancelled.artifacts,
                                        now' + 1, "book_slot", p, TRUE)
          IN /\ cancelled.ret.success
             /\ \A d \in StoreDates : Availability(cancelled.calendar, d) = Availability(calendar, d)
             /\ again.ret.success]_vars

\* a booking made by book_slot has been cancelled by cancel_slot while the
\* date holds another booking, and its time is free again
C38_Witness ==
    /\ result.op = "execute_action"
    /\ result.action_name = "cancel_slot"
    /\ result.ret.success
    /\ Truthy(Get(result.parameters, "time"))
    /\ "date" \in DOMAIN result.parameters
    /\ get_bookings(calendar, result.parameters.date) # <<>>
    /\ generate_ics_file(result.parameters) \in artifacts
    /\ InList(result.parameters.time,
              executor_get_available_slots(load_slots_config(slots_file),
                                           load_bookings(calendar), result.parameters.date))

\* C39: every booking stored in the calendar, written by the Slot Store's
\* book_specific_slot or by the Executor's book_slot, carries its date, its
\* time, a booked_at timestamp and a booking_id equal to the date, an
\* underscore and the time without its colon.
C39_BookingsCarryIdentity ==
    \A d \in DOMAIN calendar :
        \A i \in DOMAIN calendar[d] :
            /\ {"date", "time", "booked_at", "booking_id"} \subseteq DOMAIN calendar[d][i]
            /\ calendar[d][i]["date"] = d
            /\ calendar[d][i]["booking_id"] = d \o "_" \o NoColon(calendar[d][i]["time"])

====
